---- MODULE Spec2Model ----
(***************************************************************************)
(* Vocoder localization GitHub app: the change-detection and branch-       *)
(* synchronization engine.  One webhook delivery for a pull request is a   *)
(* "pass": the pre-filter of the webhook registration, the configuration   *)
(* resolver, the pending status, the two source reads, the diff, the stub  *)
(* translation, and the blob/tree/commit/ref writes, ending in a terminal  *)
(* commit status.  The hosting service (commits, trees, refs) is part of   *)
(* the state; human pushes and failing remote calls are the environment.   *)
(***************************************************************************)
EXTENDS Naturals, Sequences, FiniteSets, TLC

\* ---------------------------------------------------------------- bounds
MaxEvents == 2
MaxPushes == 1
MaxFaults == 1

Events == 1 .. MaxEvents

\* ------------------------------------------------------ names and paths
\* Branch names and branch patterns are sequences of characters, so that the
\* glob of isTargetBranch can be matched character by character.
Main == <<"m", "a", "i", "n">>
Dev == <<"d", "e", "v">>
Feature == <<"f", "x">>
DevGlob == <<"d", "*">>
Branches == {Main, Dev, Feature}
\* The head branch of a second pull request onto Dev, where there is one.
Feature2 == <<"f", "y">>

DEFAULT_CONFIG_FILE == ".vocoder/config.json"
DEFAULT_SOURCE_FILE == "src/locales/en.json"
DEFAULT_OUTPUT_DIR == "locales"
ReadmePath == "README.md"

\* ------------------------------------------------------------ JSON values
\* A JSON value is tagged: Str(v) a string, Arr(q) an array, Obj(d) an object
\* (a function from keys to JSON values).
Str(v) == [s |-> v]
Arr(q) == [arr |-> q]
Obj(d) == [o |-> d]
IsStr(j) == "s" \in DOMAIN j
IsArr(j) == "arr" \in DOMAIN j
IsObj(j) == "o" \in DOMAIN j

EmptyDoc == [k \in {} |-> Str("")]

\* A file of the repository at one revision.  parses = FALSE is a file whose
\* text JSON.parse rejects.
JsonFile(doc) == [type |-> "file", parses |-> TRUE, json |-> doc]
MalformedFile == [type |-> "file", parses |-> FALSE]

\* ------------------------------------------------------------ ConfigResolver
STATUS_STATES == [PENDING |-> "pending", SUCCESS |-> "success", FAILURE |-> "failure"]

DEFAULT_CONFIG ==
    [targetBranches |-> <<Main>>,
     sourceFile |-> DEFAULT_SOURCE_FILE,
     sourceLocale |-> "en",
     targetLocales |-> <<"fr", "it">>,
     outputDir |-> DEFAULT_OUTPUT_DIR,
     projectApiKey |-> ""]

ArrayFields == {"targetBranches", "targetLocales"}

\* Mutant: the spread is { ...config, ...DEFAULT_CONFIG }, the defaults win.
validateConfig_defaultsWin(config) ==
    [f \in DOMAIN DEFAULT_CONFIG |-> DEFAULT_CONFIG[f]]

\* { ...DEFAULT_CONFIG, ...config } followed by the per-field type checks.
validateConfig(config) ==
    [f \in DOMAIN DEFAULT_CONFIG |->
        IF f \in DOMAIN config
           /\ (IF f \in ArrayFields THEN IsArr(config[f]) ELSE IsStr(config[f]))
        THEN (IF f \in ArrayFields THEN config[f].arr ELSE config[f].s)
        ELSE DEFAULT_CONFIG[f]]

NoConfig == [none |-> TRUE]
HasConfig(c) == "none" \notin DOMAIN c
\* A call of getConfig that threw instead of returning.
ConfigThrew == [none |-> TRUE, threw |-> TRUE]
Threw(c) == "threw" \in DOMAIN c

\* '^' + pattern.replace(/\*/g, '.*') + '$' tested against the branch name.
\* Only '*' is rewritten: the rest of the pattern goes into the RegExp as it
\* is, so a '.' of the pattern matches any one character.  (The other
\* characters that are special in a RegExp are not in the patterns here.)
RECURSIVE GlobMatch(_, _)
GlobMatch(pattern, name) ==
    IF pattern = << >> THEN name = << >>
    ELSE IF Head(pattern) = "*"
         THEN \E i \in 0 .. Len(name) :
                GlobMatch(Tail(pattern), SubSeq(name, i + 1, Len(name)))
         ELSE IF Head(pattern) = "."
         THEN name # << >> /\ GlobMatch(Tail(pattern), Tail(name))
         ELSE /\ name # << >>
              /\ Head(name) = Head(pattern)
              /\ GlobMatch(Tail(pattern), Tail(name))

\* Mutant: every branch counts as monitored.
\* A pattern that is the number 5 and no string: it has no includes method.
NumberPattern == <<"5">>
PatternMatches(pattern, branchName) ==
    IF \E j \in 1 .. Len(pattern) : pattern[j] = "*"
    THEN GlobMatch(pattern, branchName)
    ELSE branchName = pattern

\* targetBranches.some(...) calls pattern.includes('*') on each pattern until
\* one matches: it throws a TypeError when it comes to a pattern that is no
\* string.
isTargetBranchThrows(branchName, config) ==
    \E i \in 1 .. Len(config.targetBranches) :
        /\ config.targetBranches[i] = NumberPattern
        /\ \A j \in 1 .. i - 1 : ~PatternMatches(config.targetBranches[j], branchName)

isTargetBranch_anyBranch(branchName, config) == TRUE

isTargetBranch(branchName, config) ==
    \E i \in 1 .. Len(config.targetBranches) :
        LET pattern == config.targetBranches[i] IN
        IF \E j \in 1 .. Len(pattern) : pattern[j] = "*"
        THEN GlobMatch(pattern, branchName)
        ELSE branchName = pattern

\* ------------------------------------------------------------ DiffEngine
\* flatten() of the "flat" package, called without options: a non-empty
\* object and a non-empty array (safe is not set) are both unfolded into
\* dot-joined keys, an array by its indices "0", "1", ...; every other value,
\* an empty object or array included, is kept as a leaf.
IsNested(v) == (IsObj(v) /\ DOMAIN v.o # {}) \/ (IsArr(v) /\ v.arr # << >>)
ArrayAsObject(q) ==
    [k \in {ToString(i - 1) : i \in 1 .. Len(q)} |->
        q[CHOOSE i \in 1 .. Len(q) : ToString(i - 1) = k]]
Children(v) == IF IsObj(v) THEN v.o ELSE ArrayAsObject(v.arr)

RECURSIVE FlatPairs(_, _)
FlatPairs(prefix, doc) ==
    UNION {IF IsNested(doc[k])
           THEN FlatPairs(prefix \o k \o ".", Children(doc[k]))
           ELSE {<<prefix \o k, doc[k]>>} : k \in DOMAIN doc}

flatten(doc) ==
    LET ps == FlatPairs("", doc) IN
    [key \in {p[1] : p \in ps} |-> (CHOOSE p \in ps : p[1] = key)[2]]

Undefined == [undefined |-> TRUE]

\* Mutant: the added and the deleted keys change places.
detailedDiff_swapped(l, r) ==
    [added |-> [k \in DOMAIN l \ DOMAIN r |-> l[k]],
     deleted |-> [k \in DOMAIN r \ DOMAIN l |-> Undefined],
     updated |-> [k \in {x \in DOMAIN l \cap DOMAIN r : l[x] # r[x]} |-> r[k]]]

\* Mutant: values are compared by reference, so an object leaf always differs.
detailedDiff_byReference(l, r) ==
    [added |-> [k \in DOMAIN r \ DOMAIN l |-> r[k]],
     deleted |-> [k \in DOMAIN l \ DOMAIN r |-> Undefined],
     updated |-> [k \in {x \in DOMAIN l \cap DOMAIN r : l[x] # r[x] \/ IsObj(r[x])} |-> r[k]]]

\* detailedDiff() of "deep-object-diff" on two flattened documents.
detailedDiff(l, r) ==
    [added |-> [k \in DOMAIN r \ DOMAIN l |-> r[k]],
     deleted |-> [k \in DOMAIN l \ DOMAIN r |-> Undefined],
     updated |-> [k \in {x \in DOMAIN l \cap DOMAIN r : l[x] # r[x]} |-> r[k]]]

\* Mutant: the documents are compared without being flattened.
detectStringChanges_noFlatten(baseStrings, currentStrings) ==
    detailedDiff(baseStrings, currentStrings)

\* The two Object.fromEntries(...sort(localeCompare)) calls only reorder the
\* keys; a document is a function here and has no key order.
detectStringChanges(baseStrings, currentStrings) ==
    detailedDiff(flatten(baseStrings), flatten(currentStrings))

NoChanges == [added |-> EmptyDoc, deleted |-> EmptyDoc, updated |-> EmptyDoc]

ObjectKeysLength(m) == Cardinality(DOMAIN m)

\* ------------------------------------------------------- TranslationGateway
\* An element of targetLocales that is the JSON number 5: validateConfig only
\* checks Array.isArray.  As a property key and in a file path it reads "5";
\* it has no toUpperCase method.
NumberLocale == "5"
HasToUpperCase(locale) == locale # NumberLocale

\* Mutant: the locale is not put in upper case.
toUpperCase_asIs(locale) == locale

toUpperCase(locale) ==
    CASE locale = "fr" -> "FR"
      [] locale = "it" -> "IT"
      [] locale = "de" -> "DE"
      [] locale = "en" -> "EN"
      [] OTHER -> locale

\* `${value}` of a leaf.
TemplateString(v) == IF IsStr(v) THEN v.s ELSE "[object Object]"

\* Mutant: the loop over changes.updated is missing.
mockTranslateAPI_addedOnly(chg, projectApiKey, targetLocales) ==
    [locale \in {targetLocales[i] : i \in 1 .. Len(targetLocales)} |->
        [k \in DOMAIN chg.added |->
            "[" \o toUpperCase(locale) \o "] " \o TemplateString(chg.added[k])]]

\* translations[locale][key] for the keys of added, then of updated.
mockTranslateAPI(chg, projectApiKey, targetLocales) ==
    [locale \in {targetLocales[i] : i \in 1 .. Len(targetLocales)} |->
        [k \in DOMAIN chg.added \cup DOMAIN chg.updated |->
            "[" \o toUpperCase(locale) \o "] " \o
            TemplateString(IF k \in DOMAIN chg.updated THEN chg.updated[k] ELSE chg.added[k])]]

\* mockTranslateAPI throws a TypeError at locale.toUpperCase() when it
\* reaches a locale that is no string and there is a key to translate.
mockTranslateAPIThrows(chg, targetLocales) ==
    /\ \E i \in 1 .. Len(targetLocales) : ~HasToUpperCase(targetLocales[i])
    /\ DOMAIN chg.added \cup DOMAIN chg.updated # {}

\* Mutant: the catch block of translateChanges is never entered.
translateChangesFails_never(chg, projectApiKey, targetLocales) == FALSE

\* translateChanges returns null exactly when mockTranslateAPI throws.
translateChangesFails(chg, projectApiKey, targetLocales) ==
    mockTranslateAPIThrows(chg, targetLocales)

\* Object.entries(translations): the locales in order of first insertion.
RECURSIVE ObjectEntriesOrder(_)
ObjectEntriesOrder(q) ==
    IF q = << >> THEN << >>
    ELSE LET rest == ObjectEntriesOrder(SubSeq(q, 1, Len(q) - 1)) IN
         IF \E i \in 1 .. Len(rest) : rest[i] = q[Len(q)]
         THEN rest ELSE Append(rest, q[Len(q)])

\* ----------------------------------------------------------- BranchCommitter
filePath(outputDir, language) == outputDir \o "/" \o language \o ".json"

\* JSON.stringify(strings, null, 2): the flat key -> string map as a file.
JSONstringify(strings) == JsonFile([k \in DOMAIN strings |-> Str(strings[k])])

ItemPaths(treeItems) == {treeItems[i].path : i \in 1 .. Len(treeItems)}

\* git.createTree({ base_tree, tree }): the entries of the base tree, with the
\* given items added or replacing the entry at their path.
createTree(baseTree, treeItems) ==
    [p \in DOMAIN baseTree \cup ItemPaths(treeItems) |->
        IF p \in ItemPaths(treeItems)
        THEN LET i == CHOOSE j \in 1 .. Len(treeItems) :
                        /\ treeItems[j].path = p
                        /\ \A m \in (j + 1) .. Len(treeItems) : treeItems[m].path # p
             IN treeItems[i].content
        ELSE baseTree[p]]

RECURSIVE Reachable(_, _, _)
\* Is commit `target` the commit `from` or one of its ancestors?
Reachable(cs, from, target) ==
    \/ from = target
    \/ \E i \in 1 .. Len(cs[from].parents) : Reachable(cs, cs[from].parents[i], target)

\* git.updateRef: without force the host accepts only a fast-forward.
RefUpdateAccepted(cs, force, current, new) ==
    force \/ Reachable(cs, new, current)

\* ------------------------------------------------------------------ state
VARIABLES
    commits,    \* the host's commit objects: commits[sha] = [parents, tree]
    refs,       \* the host's branch refs: branch name -> sha
    pass,       \* per webhook delivery: the handler's position and locals
    faults,     \* remote calls the environment has made fail so far
    pushes,     \* human pushes so far
    diff,       \* one application of detectStringChanges: inputs and result
    pure        \* one application of another pure function: inputs and result

vars == <<commits, refs, pass, faults, pushes, diff, pure>>

ShaRev(n) == [sha |-> n]
BranchRev(b) == [branch |-> b]
ResolveRev(rev) == IF "sha" \in DOMAIN rev THEN rev.sha ELSE refs[rev.branch]

NoResult == [none |-> TRUE]
HasResult(r) == "none" \notin DOMAIN r

InitPass ==
    [pc |-> "idle", kind |-> "pr", branch |-> Dev, headSha |-> 0, baseSha |-> 0, cfgTry |-> 1,
     config |-> NoConfig, changes |-> NoChanges, translations |-> << >>,
     latestSha |-> 0, treeItems |-> << >>, newTree |-> << >>, commitSha |-> 0,
     result |-> NoResult, outcome |-> "none", calls |-> << >>,
     headBranch |-> Feature, openPRs |-> << >>, results |-> << >>]

\* ------------------------------------------------------- initial repository
CfgDev == [targetBranches |-> Arr(<<Dev>>), targetLocales |-> Arr(<<"fr">>)]
CfgGlob == [targetBranches |-> Arr(<<DevGlob>>), outputDir |-> Str("i18n")]
CfgEmpty == [k \in {} |-> Str("")]
CfgNum == [targetBranches |-> Arr(<<Dev>>), targetLocales |-> Arr(<<NumberLocale>>)]
CfgTwice == [targetBranches |-> Arr(<<Dev>>), targetLocales |-> Arr(<<"fr", "it", "fr">>)]
\* The locale file of "en" in src/locales is the source file itself.
CfgCollide == [targetBranches |-> Arr(<<Dev>>), targetLocales |-> Arr(<<"en">>),
               outputDir |-> Str("src/locales")]
\* Another source file, which no revision holds.
CfgOther == [targetBranches |-> Arr(<<Dev>>), sourceFile |-> Str("i18n/en.json")]
CfgBadPattern == [targetBranches |-> Arr(<<NumberPattern>>)]
CfgNoLocales == [targetBranches |-> Arr(<<Dev>>), targetLocales |-> Arr(<< >>)]

\* What the configuration path holds at a revision ("absent": no such file).
HeadConfigs == {"absent", "malformed", "dev"}
BaseConfigs == {"absent", "glob", "empty"}
MainConfigs == {"absent", "dev"}
ConfigTree(c) ==
    CASE c = "absent" -> << >>
      [] c = "malformed" -> [p \in {DEFAULT_CONFIG_FILE} |-> MalformedFile]
      [] c = "dev" -> [p \in {DEFAULT_CONFIG_FILE} |-> JsonFile(CfgDev)]
      [] c = "glob" -> [p \in {DEFAULT_CONFIG_FILE} |-> JsonFile(CfgGlob)]
      [] c = "num" -> [p \in {DEFAULT_CONFIG_FILE} |-> JsonFile(CfgNum)]
      [] c = "twice" -> [p \in {DEFAULT_CONFIG_FILE} |-> JsonFile(CfgTwice)]
      [] c = "collide" -> [p \in {DEFAULT_CONFIG_FILE} |-> JsonFile(CfgCollide)]
      [] c = "other" -> [p \in {DEFAULT_CONFIG_FILE} |-> JsonFile(CfgOther)]
      [] c = "badpattern" -> [p \in {DEFAULT_CONFIG_FILE} |-> JsonFile(CfgBadPattern)]
      [] c = "nolocales" -> [p \in {DEFAULT_CONFIG_FILE} |-> JsonFile(CfgNoLocales)]
      [] OTHER -> [p \in {DEFAULT_CONFIG_FILE} |-> JsonFile(CfgEmpty)]

DocA1 == [k \in {"a"} |-> Str("1")]
DocA2 == [k \in {"a"} |-> Str("2")]
DocA1B2 == [k \in {"a", "b"} |-> IF k = "a" THEN Str("1") ELSE Str("2")]
DocB2 == [k \in {"b"} |-> Str("2")]
DocNested == [k \in {"a", "n"} |-> IF k = "a" THEN Str("1") ELSE Obj([j \in {"x"} |-> Str("2")])]

\* What the source path holds at the base and at the head revision.
BaseDocs == {EmptyDoc, DocA1, DocA1B2}
HeadDocs == {DocA1, DocA2, DocA1B2, DocB2, DocNested}
SourceTree(present, doc) ==
    IF present THEN [p \in {DEFAULT_SOURCE_FILE} |-> JsonFile(doc)] ELSE << >>

\* A locale file committed on the head branch before the pass.
OldLocale == [k \in {"a", "z"} |-> IF k = "a" THEN Str("[FR] 0") ELSE Str("[FR] 9")]
LocaleTree == [p \in {filePath(DEFAULT_OUTPUT_DIR, "fr")} |-> JsonFile(OldLocale)]

ReadmeTree(v) == [p \in {ReadmePath} |-> [type |-> "file", parses |-> FALSE, text |-> v]]

\* Union of functions with disjoint domains.
Merge(f, g) == [x \in DOMAIN f \cup DOMAIN g |-> IF x \in DOMAIN f THEN f[x] ELSE g[x]]

\* The initial repositories: either the configuration files vary over the
\* three revisions of the fallback order and the source documents are one
\* changed pair, or the documents vary and the configuration is on the head.
InitialInputs(cm, cd, ch, bp, hp, bd, hd) ==
    /\ ~bp => bd = DocA1
    /\ ~hp => hd = DocA1
    /\ \/ bp /\ hp /\ bd = DocA1 /\ hd = DocA1B2
       \/ cm = "absent" /\ cd = "absent" /\ ch = "dev"

\* Three commits: 1 on the default branch, 2 on the base branch, 3 on the pull
\* request's head branch.
Repository(cm, cd, ch, bp, hp, bd, hd) ==
    << [parents |-> << >>, tree |-> Merge(ConfigTree(cm), ReadmeTree("v1"))],
       [parents |-> <<1>>,
        tree |-> Merge(ConfigTree(cd), Merge(SourceTree(bp, bd), ReadmeTree("v1")))],
       [parents |-> <<2>>,
        tree |-> Merge(ConfigTree(ch),
                       Merge(SourceTree(hp, hd),
                             Merge(LocaleTree, ReadmeTree("v1"))))] >>

InitialRefs == [b \in Branches |-> CASE b = Main -> 1 [] b = Dev -> 2 [] OTHER -> 3]

\* No application of detectStringChanges on its own is under way.
DiffOff == [phase |-> "off"]
\* No application of another pure function on its own is under way.
PureOff == [phase |-> "off"]

Init ==
    /\ \E cm \in MainConfigs, cd \in BaseConfigs, ch \in HeadConfigs,
          bp \in BOOLEAN, hp \in BOOLEAN,
          bd \in BaseDocs, hd \in HeadDocs :
         /\ InitialInputs(cm, cd, ch, bp, hp, bd, hd)
         /\ commits = Repository(cm, cd, ch, bp, hp, bd, hd)
    /\ refs = InitialRefs
    /\ pass = [e \in Events |-> InitPass]
    /\ faults = 0
    /\ pushes = 0
    /\ diff = DiffOff
    /\ pure = PureOff

\* ------------------------------------------------------- remote-call helpers
FaultCount(f) == IF f THEN 1 ELSE 0

\* getFileContent: a failing call or a JSON.parse error throws; a 404 or a
\* non-file entry is null (found = FALSE).  The paths of the model carry no
\* leading or trailing slash, so normalizedFilePath is the path itself.
\* `fault` stands for every way the call throws before it has a file: a
\* non-404 error of repos.getContent, or validateSha (imported from
\* validation.js, whose body is not among the sources) rejecting the ref.
getFileContent(tree, path, fault) ==
    IF fault THEN [threw |-> TRUE, found |-> FALSE]
    ELSE IF path \notin DOMAIN tree THEN [threw |-> FALSE, found |-> FALSE]
    ELSE IF tree[path].type # "file" THEN [threw |-> FALSE, found |-> FALSE]
    ELSE IF ~tree[path].parses THEN [threw |-> TRUE, found |-> FALSE]
    ELSE [threw |-> FALSE, found |-> TRUE, json |-> tree[path].json]

\* Mutant: the errors of getFileContent are not caught.
getConfig_rethrows(tree, fault) ==
    LET r == getFileContent(tree, DEFAULT_CONFIG_FILE, fault) IN
    IF r.threw THEN ConfigThrew
    ELSE IF r.found THEN validateConfig(r.json) ELSE NoConfig

\* getConfig: any throw is caught and is "no configuration at this revision".
getConfig(tree, fault) ==
    LET r == getFileContent(tree, DEFAULT_CONFIG_FILE, fault) IN
    IF r.found THEN validateConfig(r.json) ELSE NoConfig

\* Mutant: the base branch is tried before the head SHA.
ConfigRevisions_baseFirst(p) == <<BranchRev(Dev), ShaRev(p.headSha), BranchRev(Main)>>

\* The revisions getConfigWithFallback tries for a pull-request event.
ConfigRevisions(p) == <<ShaRev(p.headSha), BranchRev(Dev), BranchRev(Main)>>

\* Mutant: the default branch is tried before the pushed branch.
PushRevisions_defaultFirst(p) == <<BranchRev(Main), BranchRev(p.branch)>>

\* The revisions getConfigWithFallback tries for a push event.
PushRevisions(p) == <<BranchRev(p.branch), BranchRev(Main)>>

FallbackRevisions(p) == IF p.kind = "push" THEN PushRevisions(p) ELSE ConfigRevisions(p)

ReadEntry(path, rev, phase, fault, r) ==
    [op |-> "getContent", path |-> path, ref |-> rev, phase |-> phase,
     fault |-> fault, found |-> r.found]

StatusEntry(sha, state, description, fault, p) ==
    [op |-> "createCommitStatus", sha |-> sha, state |-> state,
     description |-> description, fault |-> fault, at |-> p.pc]

Failure(msg) ==
    [success |-> FALSE, error |-> msg, changesProcessed |-> 0, localesUpdated |-> 0]

\* processPullRequest(event, pr, config) is entered from the loop of
\* handlePushEvent: its locals are fresh, the SHAs and the head ref are those
\* of the listed pull request.
ProcessPullRequest(q, pr) ==
    [q EXCEPT !.pc = "p_read", !.headBranch = pr.headRef,
              !.headSha = pr.headSha, !.baseSha = pr.baseSha,
              !.changes = NoChanges, !.translations = << >>, !.latestSha = 0,
              !.treeItems = << >>, !.newTree = << >>, !.commitSha = 0]

\* Mutant: the loop of handlePushEvent stops at the first failed result.
AfterResult_abortsOnFailure(r) ==
    IF r.result.success /\ Len(r.results) < Len(r.openPRs)
    THEN ProcessPullRequest(r, r.openPRs[Len(r.results) + 1])
    ELSE [r EXCEPT !.pc = "done", !.outcome = "reprocessed"]

\* The loop of handlePushEvent after a result: it is logged, whatever it is,
\* and the next pull request of the list is processed.
AfterResult(r) ==
    IF Len(r.results) < Len(r.openPRs)
    THEN ProcessPullRequest(r, r.openPRs[Len(r.results) + 1])
    ELSE [r EXCEPT !.pc = "done", !.outcome = "reprocessed"]

\* processPullRequest returns `result` to its caller: handlePullRequestEvent
\* goes on to the terminal status, the loop of handlePushEvent to its next
\* iteration.
Returned(q, result) ==
    IF q.kind = "push"
    THEN AfterResult([q EXCEPT !.result = result, !.results = Append(@, result)])
    ELSE [q EXCEPT !.pc = "h_status", !.result = result]

\* ------------------------------------------------------------- environment
\* A pull_request webhook is delivered: the WebhookEvent snapshot of the
\* pull request (head branch Feature, base branch Dev) is taken.
Deliver(e) ==
    /\ pass[e].pc = "idle"
    /\ \A d \in Events : d < e => pass[d].pc # "idle"
    /\ pass' = [pass EXCEPT ![e] = [@ EXCEPT !.pc = "f_config",
                                             !.headSha = refs[Feature],
                                             !.baseSha = refs[Dev]]]
    /\ UNCHANGED <<commits, refs, faults, pushes, diff, pure>>

\* A push webhook for branch b is delivered: payload.ref is the branch,
\* payload.before the previous head and the last of payload.commits the new
\* head.  A push that brings no commit (baseSha = 0) has an empty commits list.
DeliverPush(e, b) ==
    /\ pass[e].pc = "idle"
    /\ \A d \in Events : d < e => pass[d].pc # "idle"
    /\ pass' = [pass EXCEPT ![e] =
                  [@ EXCEPT !.pc = "f_config", !.kind = "push", !.branch = b,
                            !.headSha = refs[b],
                            !.baseSha = IF commits[refs[b]].parents = << >> THEN 0
                                        ELSE commits[refs[b]].parents[1]]]
    /\ UNCHANGED <<commits, refs, faults, pushes, diff, pure>>

\* Someone pushes a commit onto the pull request's head branch: it rewrites
\* the source document.
HumanPush ==
    /\ pushes < MaxPushes
    /\ LET old == commits[refs[Feature]].tree
           new == [p \in DOMAIN old \cup {DEFAULT_SOURCE_FILE} |->
                     IF p = DEFAULT_SOURCE_FILE THEN JsonFile(DocB2) ELSE old[p]]
       IN /\ commits' = Append(commits, [parents |-> <<refs[Feature]>>, tree |-> new])
          /\ refs' = [refs EXCEPT ![Feature] = Len(commits) + 1]
    /\ pushes' = pushes + 1
    /\ UNCHANGED <<pass, faults, diff, pure>>

\* ------------------------------------------------- getConfigWithFallback
\* Where a pull-request pass goes once the resolver has returned: from the
\* pre-filter (shouldProcessWebhook) or from handlePullRequestEvent.
\* Mutant: the pending status is left out and processing starts at once.
EnterProcessingPc_noPending == "p_read"

EnterProcessingPc == "h_pending"

\* shouldProcessWebhook after the resolver: no configuration or no
\* sourceFile means "process anyway".
FilterAfterConfig(q, config) ==
    IF ~HasConfig(config) \/ config.sourceFile = ""
    THEN [q EXCEPT !.pc = "h_config", !.cfgTry = 1]
    ELSE IF q.kind = "push" /\ q.baseSha = 0
    THEN [q EXCEPT !.pc = "h_config", !.cfgTry = 1]
    ELSE [q EXCEPT !.pc = "f_compare", !.cfgTry = 1, !.config = config]

\* Mutant: the "if (!config) return" is missing, so isTargetBranch throws on
\* the null configuration and the catch block sets an error status.
HandlerAfterConfig_noNullCheck(q, config) ==
    IF ~HasConfig(config)
    THEN [q EXCEPT !.pc = "h_error", !.config = NoConfig]
    ELSE IF isTargetBranchThrows(Dev, config)
    THEN [q EXCEPT !.pc = "h_error", !.config = config]
    ELSE IF ~isTargetBranch(Dev, config)
         THEN [q EXCEPT !.pc = "done", !.outcome = "skipped", !.config = config]
         ELSE [q EXCEPT !.pc = EnterProcessingPc, !.config = config]

\* handlePullRequestEvent after the resolver: the two early returns; an
\* exception of isTargetBranch lands in the catch block.
HandlerAfterConfig(q, config) ==
    IF ~HasConfig(config)
    THEN [q EXCEPT !.pc = "done", !.outcome = "skipped", !.config = NoConfig]
    ELSE IF isTargetBranchThrows(Dev, config)
    THEN [q EXCEPT !.pc = "h_error", !.config = config]
    ELSE IF ~isTargetBranch(Dev, config)
         THEN [q EXCEPT !.pc = "done", !.outcome = "skipped", !.config = config]
         ELSE [q EXCEPT !.pc = EnterProcessingPc, !.config = config]

\* handlePushEvent after the resolver: the one early return; an exception of
\* isTargetBranch is logged by the catch block.
PushHandlerAfterConfig(q, config) ==
    IF ~HasConfig(config)
    THEN [q EXCEPT !.pc = "done", !.outcome = "skipped", !.config = NoConfig]
    ELSE IF isTargetBranchThrows(q.branch, config)
    THEN [q EXCEPT !.pc = "done", !.outcome = "error", !.config = config]
    ELSE IF ~isTargetBranch(q.branch, config)
         THEN [q EXCEPT !.pc = "done", !.outcome = "skipped", !.config = config]
         ELSE [q EXCEPT !.pc = "u_list", !.config = config]

AfterConfig(q, config) ==
    IF q.pc = "f_config" THEN FilterAfterConfig(q, config)
    ELSE IF q.kind = "push" THEN PushHandlerAfterConfig(q, config)
    ELSE HandlerAfterConfig(q, config)

\* The resolver threw: shouldProcessWebhook catches and processes anyway,
\* handlePullRequestEvent's catch sets an error status, handlePushEvent's
\* catch logs.
ResolverThrew(q) ==
    IF q.pc = "f_config" THEN [q EXCEPT !.pc = "h_config", !.cfgTry = 1]
    ELSE IF q.kind = "push" THEN [q EXCEPT !.pc = "done", !.outcome = "error"]
    ELSE [q EXCEPT !.pc = "h_error"]

\* One getConfig call of getConfigWithFallback, and the resolver's return
\* when it was the last one.
GetConfig(e) ==
    /\ pass[e].pc \in {"f_config", "h_config"}
    /\ \E fault \in BOOLEAN :
         /\ fault => faults < MaxFaults
         /\ faults' = faults + FaultCount(fault)
         /\ LET p == pass[e]
                revs == FallbackRevisions(p)
                rev == revs[p.cfgTry]
                got == getConfig(commits[ResolveRev(rev)].tree, fault)
                entry == [op |-> "getConfig", ref |-> rev, phase |-> p.pc,
                          fault |-> fault, got |-> got]
                q == [p EXCEPT !.calls = Append(@, entry)]
            IN pass' = [pass EXCEPT ![e] =
                          IF Threw(got) THEN ResolverThrew(q)
                          ELSE IF HasConfig(got) \/ p.cfgTry = Len(revs)
                          THEN AfterConfig(q, got)
                          ELSE [q EXCEPT !.cfgTry = @ + 1]]
    /\ UNCHANGED <<commits, refs, pushes, diff, pure>>

\* ---------------------------------------------------- shouldProcessWebhook
\* compareSourceFiles(event, sourceFile, baseSha, headSha): fail open.
compareSourceFiles(previousFile, currentFile) ==
    IF previousFile.threw \/ currentFile.threw THEN TRUE
    ELSE IF ~previousFile.found /\ ~currentFile.found THEN FALSE
    ELSE IF ~previousFile.found \/ ~currentFile.found THEN TRUE
    ELSE LET chg == detectStringChanges(previousFile.json, currentFile.json) IN
         \/ ObjectKeysLength(chg.added) > 0
         \/ ObjectKeysLength(chg.updated) > 0
         \/ ObjectKeysLength(chg.deleted) > 0

FilterCompare(e) ==
    /\ pass[e].pc = "f_compare"
    /\ \E fp \in BOOLEAN, fc \in BOOLEAN :
         /\ faults + FaultCount(fp) + FaultCount(fc) <= MaxFaults
         /\ faults' = faults + FaultCount(fp) + FaultCount(fc)
         /\ LET p == pass[e]
                path == p.config.sourceFile
                previousFile == getFileContent(commits[p.baseSha].tree, path, fp)
                currentFile == getFileContent(commits[p.headSha].tree, path, fc)
                q == [p EXCEPT !.calls = @ \o
                        << ReadEntry(path, ShaRev(p.baseSha), p.pc, fp, previousFile),
                           ReadEntry(path, ShaRev(p.headSha), p.pc, fc, currentFile) >>,
                               !.config = NoConfig]
            IN pass' = [pass EXCEPT ![e] =
                          IF compareSourceFiles(previousFile, currentFile)
                          THEN [q EXCEPT !.pc = "h_config"]
                          ELSE [q EXCEPT !.pc = "done", !.outcome = "filtered"]]
    /\ UNCHANGED <<commits, refs, pushes, diff, pure>>

\* ----------------------------------------------------------- handlePushEvent
\* pulls.list({ state: "open", base }): every head branch of the repository
\* has one open pull request onto Dev, listed with the SHAs of its two refs.
OpenPullRequests(rs, baseBranch) ==
    IF baseBranch # Dev THEN << >>
    ELSE LET heads == IF Feature2 \in DOMAIN rs THEN <<Feature, Feature2>> ELSE <<Feature>>
         IN [i \in DOMAIN heads |->
                [headRef |-> heads[i], headSha |-> rs[heads[i]], baseSha |-> rs[Dev]]]

\* getOpenPullRequests(event, branch) and the entry into the loop: the pull
\* request is processed at the head and base SHA the host reports for it.  A
\* failing call is logged by the catch block of handlePushEvent.
ListOpenPRs(e) ==
    /\ pass[e].pc = "u_list"
    /\ \E fault \in BOOLEAN :
         /\ fault => faults < MaxFaults
         /\ faults' = faults + FaultCount(fault)
         /\ LET p == pass[e]
                openPRs == OpenPullRequests(refs, p.branch)
                q == [p EXCEPT !.calls =
                        Append(@, [op |-> "pulls.list", fault |-> fault, base |-> p.branch])]
            IN pass' = [pass EXCEPT ![e] =
                 IF fault THEN [q EXCEPT !.pc = "done", !.outcome = "error"]
                 ELSE IF Len(openPRs) = 0 THEN [q EXCEPT !.pc = "done", !.outcome = "noprs"]
                 ELSE ProcessPullRequest([q EXCEPT !.openPRs = openPRs], openPRs[1])]
    /\ UNCHANGED <<commits, refs, pushes, diff, pure>>

\* --------------------------------------------------- handlePullRequestEvent
\* setCommitStatus(PENDING): a failing call (createCommitStatus failing, or
\* validateSha rejecting the SHA) is rethrown by setCommitStatus and lands in
\* the handler's catch block (setErrorStatus).
SetPending(e) ==
    /\ pass[e].pc = "h_pending"
    /\ \E fault \in BOOLEAN :
         /\ fault => faults < MaxFaults
         /\ faults' = faults + FaultCount(fault)
         /\ LET p == pass[e]
                q == [p EXCEPT !.calls =
                        Append(@, StatusEntry(p.headSha, STATUS_STATES.PENDING,
                                                 "Localization processing in progress...",
                                                 fault, p))]
            IN pass' = [pass EXCEPT ![e] =
                          [q EXCEPT !.pc = IF fault THEN "h_error" ELSE "p_read"]]
    /\ UNCHANGED <<commits, refs, pushes, diff, pure>>

\* Mutant: Object.keys(changes).length === 0, which no diff result satisfies.
NoChangesDetected_keysOfResult(chg) == Cardinality(DOMAIN chg) = 0

\* The three Object.keys(...).length === 0 tests of processPullRequest.
NoChangesDetected(chg) ==
    /\ ObjectKeysLength(chg.added) = 0
    /\ ObjectKeysLength(chg.updated) = 0
    /\ ObjectKeysLength(chg.deleted) = 0

\* processPullRequest up to the diff: Promise.all of the two source reads,
\* the two null checks, detectStringChanges, the no-change return.
\* Mutant: the commit step is entered right after the diff.
AfterDiffPc_commitFirst == "c_getRef"

\* After detectStringChanges found changes: translateChanges is awaited.
AfterDiffPc == "p_translate"

ReadSources(e) ==
    /\ pass[e].pc = "p_read"
    /\ \E fh \in BOOLEAN, fb \in BOOLEAN :
         /\ faults + FaultCount(fh) + FaultCount(fb) <= MaxFaults
         /\ faults' = faults + FaultCount(fh) + FaultCount(fb)
         /\ LET p == pass[e]
                path == p.config.sourceFile
                sourceContent == getFileContent(commits[p.headSha].tree, path, fh)
                baseContent == getFileContent(commits[p.baseSha].tree, path, fb)
                q == [p EXCEPT !.calls = @ \o
                        << ReadEntry(path, ShaRev(p.headSha), p.pc, fh, sourceContent),
                           ReadEntry(path, ShaRev(p.baseSha), p.pc, fb, baseContent) >>]
                chg == detectStringChanges(baseContent.json, sourceContent.json)
            IN pass' = [pass EXCEPT ![e] =
                 IF sourceContent.threw \/ baseContent.threw
                 THEN Returned(q, Failure("read error"))
                 ELSE IF ~sourceContent.found
                 THEN Returned(q, Failure("No source localization file found in PR branch"))
                 ELSE IF ~baseContent.found
                 THEN Returned(q, Failure("No source localization file found in base branch"))
                 ELSE IF NoChangesDetected(chg)
                 THEN Returned([q EXCEPT !.changes = chg],
                               [success |-> TRUE, error |-> "",
                                changesProcessed |-> 0, localesUpdated |-> 0])
                 ELSE [q EXCEPT !.pc = AfterDiffPc, !.changes = chg]]
    /\ UNCHANGED <<commits, refs, pushes, diff, pure>>

\* translateChanges -> mockTranslateAPI (the stub awaits a timer, no remote call).
Translate(e) ==
    /\ pass[e].pc = "p_translate"
    /\ LET p == pass[e]
           failed == translateChangesFails(p.changes, p.config.projectApiKey,
                                           p.config.targetLocales)
           q == [p EXCEPT !.calls = Append(@, [op |-> "translate", failed |-> failed])]
       IN pass' = [pass EXCEPT ![e] =
                     IF failed
                     THEN Returned(q, Failure("Translation API call failed"))
                     ELSE [q EXCEPT !.pc = "c_getRef",
                                    !.translations =
                                        mockTranslateAPI(p.changes, p.config.projectApiKey,
                                                         p.config.targetLocales)]]
    /\ UNCHANGED <<commits, refs, faults, pushes, diff, pure>>

\* ------------------------------------------------- commitTranslationsToPR
\* The catch block of commitTranslationsToPR, then processPullRequest's
\* return of { success: false, error: commitResult.error }.
\* Mutant: the catch block reports success.
CommitFailed_reportsSuccess(q) ==
    Returned(q, [success |-> TRUE, error |-> "", changesProcessed |-> 0, localesUpdated |-> 0])

\* Mutant: a failed call sends the committer back to its first call.
CommitFailed_retries(q) == [q EXCEPT !.pc = "c_getRef", !.treeItems = << >>]

CommitFailed(q) ==
    Returned(q, [success |-> FALSE, error |-> "commit error",
                 changesProcessed |-> 0, languagesUpdated |-> 0])

GitEntry(op, fault) == [op |-> op, fault |-> fault]

\* git.getRef(heads/<head branch>): the latest head of the branch.
GetRef(e) ==
    /\ pass[e].pc = "c_getRef"
    /\ \E fault \in BOOLEAN :
         /\ fault => faults < MaxFaults
         /\ faults' = faults + FaultCount(fault)
         /\ LET q == [pass[e] EXCEPT !.calls =
                        Append(@, [op |-> "getRef", fault |-> fault,
                                   sha |-> refs[pass[e].headBranch]])]
            IN pass' = [pass EXCEPT ![e] =
                          IF fault THEN CommitFailed(q)
                          ELSE [q EXCEPT !.pc = "c_getTree",
                                         !.latestSha = refs[pass[e].headBranch]]]
    /\ UNCHANGED <<commits, refs, pushes, diff, pure>>

LocaleOrder(p) == ObjectEntriesOrder(p.config.targetLocales)

\* git.getTree(latestSha, recursive): the result is not used afterwards.
GetTree(e) ==
    /\ pass[e].pc = "c_getTree"
    /\ \E fault \in BOOLEAN :
         /\ fault => faults < MaxFaults
         /\ faults' = faults + FaultCount(fault)
         /\ LET q == [pass[e] EXCEPT !.calls = Append(@, GitEntry("getTree", fault))] IN
            pass' = [pass EXCEPT ![e] =
                       IF fault THEN CommitFailed(q)
                       ELSE [q EXCEPT !.pc = IF LocaleOrder(q) = << >>
                                             THEN "c_createTree" ELSE "c_createBlob"]]
    /\ UNCHANGED <<commits, refs, pushes, diff, pure>>

\* Mutant: the changes are computed again, against the source document at
\* the re-read branch head.
BlobContent_rereadHead(cs, p, language) ==
    LET b == cs[p.baseSha].tree[p.config.sourceFile].json
        h == cs[p.latestSha].tree[p.config.sourceFile].json
    IN JSONstringify(mockTranslateAPI(detectStringChanges(b, h), p.config.projectApiKey,
                                      p.config.targetLocales)[language])

\* content: JSON.stringify(content, null, 2) of the locale's translations, as
\* processPullRequest passed them in.
BlobContent(cs, p, language) == JSONstringify(p.translations[language])

\* One iteration of the loop over Object.entries(translations): createBlob
\* and the push onto treeItems.
CreateBlob(e) ==
    /\ pass[e].pc = "c_createBlob"
    /\ \E fault \in BOOLEAN :
         /\ fault => faults < MaxFaults
         /\ faults' = faults + FaultCount(fault)
         /\ LET p == pass[e]
                language == LocaleOrder(p)[Len(p.treeItems) + 1]
                item == [path |-> filePath(p.config.outputDir, language),
                         content |-> BlobContent(commits, p, language)]
                q == [p EXCEPT !.calls =
                        Append(@, [op |-> "createBlob", fault |-> fault, path |-> item.path])]
            IN pass' = [pass EXCEPT ![e] =
                 IF fault THEN CommitFailed(q)
                 ELSE [q EXCEPT !.treeItems = Append(@, item),
                                !.pc = IF Len(p.treeItems) + 1 = Len(LocaleOrder(p))
                                       THEN "c_createTree" ELSE "c_createBlob"]]
    /\ UNCHANGED <<commits, refs, pushes, diff, pure>>

\* Mutant: base_tree is left out, the tree holds the locale files only.
NewTree_noBaseTree(cs, p) == createTree(<< >>, p.treeItems)

\* git.createTree({ base_tree: latestSha, tree: treeItems }).
NewTree(cs, p) == createTree(cs[p.latestSha].tree, p.treeItems)

CreateTree(e) ==
    /\ pass[e].pc = "c_createTree"
    /\ \E fault \in BOOLEAN :
         /\ fault => faults < MaxFaults
         /\ faults' = faults + FaultCount(fault)
         /\ LET q == [pass[e] EXCEPT !.calls = Append(@, GitEntry("createTree", fault))] IN
            pass' = [pass EXCEPT ![e] =
                       IF fault THEN CommitFailed(q)
                       ELSE [q EXCEPT !.pc = "c_createCommit", !.newTree = NewTree(commits, q)]]
    /\ UNCHANGED <<commits, refs, pushes, diff, pure>>

\* Mutant: the parent is the head SHA of the event, not the re-read one.
CommitParents_eventHead(p) == <<p.headSha>>

\* parents: [latestSha]
CommitParents(p) == <<p.latestSha>>

\* git.createCommit({ tree: newTree.sha, parents: [latestSha] }).
CreateCommit(e) ==
    /\ pass[e].pc = "c_createCommit"
    /\ \E fault \in BOOLEAN :
         /\ fault => faults < MaxFaults
         /\ faults' = faults + FaultCount(fault)
         /\ LET p == pass[e]
                q == [p EXCEPT !.calls = Append(@, GitEntry("createCommit", fault))]
            IN IF fault
               THEN /\ pass' = [pass EXCEPT ![e] = CommitFailed(q)]
                    /\ UNCHANGED commits
               ELSE /\ commits' = Append(commits, [parents |-> CommitParents(p), tree |-> p.newTree])
                    /\ pass' = [pass EXCEPT ![e] =
                                  [q EXCEPT !.pc = "c_updateRef", !.commitSha = Len(commits) + 1]]
    /\ UNCHANGED <<refs, pushes, diff, pure>>

\* Mutant: the ref update is not forced.
UpdateRefForce_notForced == FALSE

\* force: true
UpdateRefForce == TRUE

\* git.updateRef({ ref: heads/<head branch>, sha: commit.sha, force: true }),
\* then the success return of commitTranslationsToPR and of processPullRequest.
UpdateRef(e) ==
    /\ pass[e].pc = "c_updateRef"
    /\ \E fault \in BOOLEAN :
         /\ fault => faults < MaxFaults
         /\ faults' = faults + FaultCount(fault)
         /\ LET p == pass[e]
                accepted == RefUpdateAccepted(commits, UpdateRefForce,
                                              refs[p.headBranch], p.commitSha)
                q == [p EXCEPT !.calls =
                        Append(@, [op |-> "updateRef", fault |-> fault,
                                   ok |-> ~fault /\ accepted, before |-> refs[p.headBranch]])]
            IN IF fault \/ ~accepted
               THEN /\ pass' = [pass EXCEPT ![e] = CommitFailed(q)]
                    /\ UNCHANGED refs
               ELSE /\ refs' = [refs EXCEPT ![p.headBranch] = p.commitSha]
                    /\ pass' = [pass EXCEPT ![e] =
                         Returned(q, [success |-> TRUE, error |-> "",
                                      changesProcessed |->
                                          ObjectKeysLength(p.changes.added)
                                          + ObjectKeysLength(p.changes.updated)
                                          + ObjectKeysLength(p.changes.deleted),
                                      localesUpdated |-> ObjectKeysLength(p.translations)])]
    /\ UNCHANGED <<commits, pushes, diff, pure>>

\* ------------------------------------------------------- terminal statuses
\* Mutant: the terminal status goes to the commit the pass created.
TerminalStatusSha_newHead(p) == IF p.commitSha # 0 THEN p.commitSha ELSE p.headSha

\* The SHA of the terminal status: pull_request.head.sha of the payload.
TerminalStatusSha(p) == p.headSha

\* The setCommitStatus(SUCCESS | FAILURE) of handlePullRequestEvent; a failing
\* call is rethrown into the handler's catch block.
TerminalStatus(e) ==
    /\ pass[e].pc = "h_status"
    /\ \E fault \in BOOLEAN :
         /\ fault => faults < MaxFaults
         /\ faults' = faults + FaultCount(fault)
         /\ LET p == pass[e]
                state == IF p.result.success THEN STATUS_STATES.SUCCESS
                         ELSE STATUS_STATES.FAILURE
                description ==
                    IF p.result.success
                    THEN "Localization complete: " \o ToString(p.result.changesProcessed)
                         \o " changes processed"
                    ELSE "Localization failed: " \o p.result.error
                q == [p EXCEPT !.calls =
                        Append(@, StatusEntry(TerminalStatusSha(p), state, description,
                                              fault, p))]
            IN pass' = [pass EXCEPT ![e] =
                          IF fault THEN [q EXCEPT !.pc = "h_error"]
                          ELSE [q EXCEPT !.pc = "done", !.outcome = state]]
    /\ UNCHANGED <<commits, refs, pushes, diff, pure>>

\* Mutant: the catch block of setErrorStatus rethrows, the handler's promise
\* is rejected.
ErrorStatusOutcome_rethrows(fault) == IF fault THEN "threw" ELSE "error"

\* How handlePullRequestEvent ends after setErrorStatus: the failure of the
\* status call is logged by handleCommitStatusError, which does not throw.
ErrorStatusOutcome(fault) == "error"

\* setErrorStatus: one attempt at a failure status; its own failure is logged.
SetErrorStatus(e) ==
    /\ pass[e].pc = "h_error"
    /\ \E fault \in BOOLEAN :
         /\ fault => faults < MaxFaults
         /\ faults' = faults + FaultCount(fault)
         /\ LET p == pass[e] IN
            pass' = [pass EXCEPT ![e] =
                       [p EXCEPT !.pc = "done", !.outcome = ErrorStatusOutcome(fault),
                                 !.calls = Append(@, StatusEntry(p.headSha, STATUS_STATES.FAILURE,
                                                                 "Localization error: request failed",
                                                                 fault, p))]]
    /\ UNCHANGED <<commits, refs, pushes, diff, pure>>

\* ------------------------------------------------------------ specification
Next ==
    \/ \E e \in Events : Deliver(e)
    \/ HumanPush
    \/ \E e \in Events : GetConfig(e)
    \/ \E e \in Events : FilterCompare(e)
    \/ \E e \in Events : SetPending(e)
    \/ \E e \in Events : ReadSources(e)
    \/ \E e \in Events : Translate(e)
    \/ \E e \in Events : GetRef(e)
    \/ \E e \in Events : GetTree(e)
    \/ \E e \in Events : CreateBlob(e)
    \/ \E e \in Events : CreateTree(e)
    \/ \E e \in Events : CreateCommit(e)
    \/ \E e \in Events : UpdateRef(e)
    \/ \E e \in Events : TerminalStatus(e)
    \/ \E e \in Events : SetErrorStatus(e)

Spec == Init /\ [][Next]_vars

\* Pull-request events on repositories whose head configuration names the
\* target locales: a locale twice, or a number in place of a locale.
LocaleConfigs == {"twice", "num", "nolocales"}
InitLocales ==
    /\ \E ch \in LocaleConfigs, bd \in BaseDocs, hd \in HeadDocs :
         commits = Repository("absent", "absent", ch, TRUE, TRUE, bd, hd)
    /\ refs = InitialRefs
    /\ pass = [e \in Events |-> InitPass]
    /\ faults = 0
    /\ pushes = 0
    /\ diff = DiffOff
    /\ pure = PureOff

SpecLocales == InitLocales /\ [][Next]_vars

\* Push events beside pull-request events.
PushMainConfigs == {"absent", "dev", "empty"}
PushBaseConfigs == {"absent", "glob", "empty"}
InitPush ==
    /\ \E cm \in PushMainConfigs, cd \in PushBaseConfigs :
         commits = Repository(cm, cd, "absent", TRUE, TRUE, DocA1, DocA1B2)
    /\ refs = InitialRefs
    /\ pass = [e \in Events |-> InitPass]
    /\ faults = 0
    /\ pushes = 0
    /\ diff = DiffOff
    /\ pure = PureOff

NextPush ==
    \/ Next
    \/ \E e \in Events, b \in Branches : DeliverPush(e, b)
    \/ \E e \in Events : ListOpenPRs(e)

SpecPush == InitPush /\ [][NextPush]_vars

\* ------------------------------------------- detectStringChanges on its own
\* The documents detectStringChanges is applied to: every flat document over
\* DiffKeys and DiffValues, nested documents, a document whose key already
\* holds a dot, and a document with an empty object as a leaf.
DiffKeys == {"a", "b"}
DiffValues == {Str("1"), Str("2")}
FlatDocs == UNION {[ks -> DiffValues] : ks \in SUBSET DiffKeys}
DocNested1 == [k \in {"a", "n"} |-> IF k = "a" THEN Str("1") ELSE Obj([j \in {"x"} |-> Str("1")])]
DocDotted == [k \in {"a", "n.x"} |-> IF k = "a" THEN Str("1") ELSE Str("2")]
DocEmptyLeaf == [k \in {"a"} |-> Obj(EmptyDoc)]
DiffDocs == FlatDocs \cup {DocNested, DocNested1, DocDotted, DocEmptyLeaf}

InitDiff ==
    /\ commits = << >>
    /\ refs = InitialRefs
    /\ pass = [e \in Events |-> InitPass]
    /\ faults = 0
    /\ pushes = 0
    /\ \E b \in DiffDocs, h \in DiffDocs :
         diff = [phase |-> "input", base |-> b, head |-> h]
    /\ pure = PureOff

\* detectStringChanges(base, head) is called and its result kept.
ApplyDiff ==
    /\ diff.phase = "input"
    /\ diff' = [phase |-> "done", base |-> diff.base, head |-> diff.head,
                changes |-> detectStringChanges(diff.base, diff.head)]
    /\ UNCHANGED <<commits, refs, pass, faults, pushes, pure>>

NextDiff == ApplyDiff

SpecDiff == InitDiff /\ [][NextDiff]_vars

\* Two open pull requests onto Dev: the second one's head branch Feature2 is
\* at a fourth commit.  The default branch holds the configuration; the first
\* pull request may lack the source file, the second may bring no change.
InitReprocess ==
    /\ \E hp \in BOOLEAN, hd2 \in {DocA1, DocA2} :
         commits = Append(Repository("dev", "absent", "absent", TRUE, hp,
                                     DocA1, IF hp THEN DocA1B2 ELSE DocA1),
                          [parents |-> <<2>>,
                           tree |-> Merge(SourceTree(TRUE, hd2), ReadmeTree("v1"))])
    /\ refs = [b \in Branches \cup {Feature2} |-> IF b = Feature2 THEN 4 ELSE InitialRefs[b]]
    /\ pass = [e \in Events |-> InitPass]
    /\ faults = 0
    /\ pushes = 0
    /\ diff = DiffOff
    /\ pure = PureOff

SpecReprocess == InitReprocess /\ [][NextPush]_vars

\* Pull-request and push events on repositories with an unusual
\* configuration (default branch, base branch, head): a number among the
\* targetBranches, a locale file that is the source file, or a base branch
\* that names another source file than the head.
ErrorConfigs ==
    {<<"dev", "absent", "absent">>, <<"dev", "absent", "badpattern">>,
     <<"badpattern", "absent", "absent">>, <<"badpattern", "absent", "badpattern">>,
     <<"absent", "absent", "collide">>, <<"absent", "other", "dev">>}
InitErrors ==
    /\ \E c \in ErrorConfigs :
         commits = Repository(c[1], c[2], c[3], TRUE, TRUE, DocA1, DocA1B2)
    /\ refs = InitialRefs
    /\ pass = [e \in Events |-> InitPass]
    /\ faults = 0
    /\ pushes = 0
    /\ diff = DiffOff
    /\ pure = PureOff

SpecErrors == InitErrors /\ [][NextPush]_vars

\* The host delivers a pull_request event for the opening of the pull
\* request (the first event) and a synchronize event for every commit the
\* app itself puts on the head branch, and no other event.
DeliverTriggered(e) ==
    /\ \/ e = 1
       \/ /\ \E d \in Events : pass[d].commitSha # 0 /\ refs[Feature] = pass[d].commitSha
          /\ \A d \in Events : pass[d].headSha # refs[Feature]
    /\ Deliver(e)

NextLoop ==
    \/ \E e \in Events : DeliverTriggered(e)
    \/ \E e \in Events : GetConfig(e)
    \/ \E e \in Events : FilterCompare(e)
    \/ \E e \in Events : SetPending(e)
    \/ \E e \in Events : ReadSources(e)
    \/ \E e \in Events : Translate(e)
    \/ \E e \in Events : GetRef(e)
    \/ \E e \in Events : GetTree(e)
    \/ \E e \in Events : CreateBlob(e)
    \/ \E e \in Events : CreateTree(e)
    \/ \E e \in Events : CreateCommit(e)
    \/ \E e \in Events : UpdateRef(e)
    \/ \E e \in Events : TerminalStatus(e)
    \/ \E e \in Events : SetErrorStatus(e)

InitLoop ==
    /\ \E hd \in HeadDocs :
         commits = Repository("absent", "absent", "dev", TRUE, TRUE, DocA1, hd)
    /\ refs = InitialRefs
    /\ pass = [e \in Events |-> InitPass]
    /\ faults = 0
    /\ pushes = 0
    /\ diff = DiffOff
    /\ pure = PureOff

SpecLoop == InitLoop /\ [][NextLoop]_vars

\* The pull request comes from a fork whose branch has the name of the base
\* branch: pull_request.head.ref is Dev.  The entry Feature of refs is that
\* branch of the fork; Main and Dev are the branches of the repository the
\* event names (payload.repository), where the app makes its calls.
InitFork ==
    /\ \E hd \in HeadDocs :
         commits = Repository("absent", "absent", "dev", TRUE, TRUE, DocA1, hd)
    /\ refs = InitialRefs
    /\ pass = [e \in Events |-> [InitPass EXCEPT !.headBranch = Dev]]
    /\ faults = 0
    /\ pushes = 0
    /\ diff = DiffOff
    /\ pure = PureOff

SpecFork == InitFork /\ [][Next]_vars

\* Documents with an array under key "a", beside a string and nothing there.
ArrayValues == {Arr(<< >>), Arr(<<Str("1")>>), Arr(<<Str("2")>>),
                Arr(<<Str("1"), Str("1")>>), Arr(<<Str("1"), Str("2")>>),
                Arr(<<Str("2"), Str("1")>>), Arr(<<Str("2"), Str("2")>>), Str("1")}
ArrayDocs == {EmptyDoc} \cup {[k \in {"a"} |-> v] : v \in ArrayValues}

InitArrays ==
    /\ commits = << >>
    /\ refs = InitialRefs
    /\ pass = [e \in Events |-> InitPass]
    /\ faults = 0
    /\ pushes = 0
    /\ \E b \in ArrayDocs, h \in ArrayDocs :
         diff = [phase |-> "input", base |-> b, head |-> h]
    /\ pure = PureOff

SpecArrays == InitArrays /\ [][NextDiff]_vars

\* ----------------------------------------------- mockTranslateAPI on its own
LocaleLists == {<< >>, <<"fr">>, <<"fr", "it">>, <<"de", "fr">>, <<"fr", "fr">>}

\* The host and the passes are idle while a pure function is applied.
HostIdle ==
    /\ commits = << >>
    /\ refs = InitialRefs
    /\ pass = [e \in Events |-> InitPass]
    /\ faults = 0
    /\ pushes = 0
    /\ diff = DiffOff

InitTranslate ==
    /\ HostIdle
    /\ \E b \in FlatDocs, h \in FlatDocs, l \in LocaleLists, key \in {"", "key"} :
         pure = [phase |-> "input", base |-> b, head |-> h, targetLocales |-> l,
                 projectApiKey |-> key]

\* mockTranslateAPI(changes, projectApiKey, targetLocales) on the changes
\* detectStringChanges finds between the two documents.
ApplyTranslate ==
    /\ pure.phase = "input"
    /\ LET chg == detectStringChanges(pure.base, pure.head) IN
       pure' = [phase |-> "done", base |-> pure.base, head |-> pure.head,
                targetLocales |-> pure.targetLocales, projectApiKey |-> pure.projectApiKey,
                changes |-> chg,
                translations |-> mockTranslateAPI(chg, pure.projectApiKey, pure.targetLocales)]
    /\ UNCHANGED <<commits, refs, pass, faults, pushes, diff>>

SpecTranslate == InitTranslate /\ [][ApplyTranslate]_vars

\* ------------------------------------------------- isTargetBranch on its own
MaxPatternLen == 2
MaxNameLen == 3
Words(chars, n) == UNION {[1 .. m -> chars] : m \in 0 .. n}
PatternLists ==
    {<<p>> : p \in Words({"a", ".", "*"}, MaxPatternLen)}
    \cup {<<p, <<"b">> >> : p \in Words({"a", ".", "*"}, MaxPatternLen)}

InitBranch ==
    /\ HostIdle
    /\ \E name \in Words({"a", "b", "."}, MaxNameLen), ps \in PatternLists :
         pure = [phase |-> "input", branchName |-> name, targetBranches |-> ps]

ApplyIsTargetBranch ==
    /\ pure.phase = "input"
    /\ pure' = [phase |-> "done", branchName |-> pure.branchName,
                targetBranches |-> pure.targetBranches,
                monitored |-> isTargetBranch(pure.branchName,
                                             [targetBranches |-> pure.targetBranches])]
    /\ UNCHANGED <<commits, refs, pass, faults, pushes, diff>>

SpecBranch == InitBranch /\ [][ApplyIsTargetBranch]_vars

\* ------------------------------------------------- validateConfig on its own
\* A parsed configuration document: each field is absent, has the type
\* validateConfig asks for, or has the other type.
ConfigDocs ==
    UNION {[fs -> {Arr(<<Dev>>), Arr(<< >>), Str("x"), Str("")}] :
              fs \in SUBSET DOMAIN DEFAULT_CONFIG}

InitValidate ==
    /\ HostIdle
    /\ \E doc \in ConfigDocs : pure = [phase |-> "input", doc |-> doc]

ApplyValidateConfig ==
    /\ pure.phase = "input"
    /\ pure' = [phase |-> "done", doc |-> pure.doc, validated |-> validateConfig(pure.doc)]
    /\ UNCHANGED <<commits, refs, pass, faults, pushes, diff>>

SpecValidate == InitValidate /\ [][ApplyValidateConfig]_vars

\* ================================================================== claims
Calls(e) == pass[e].calls
GitWriteOps == {"createBlob", "createTree", "createCommit", "updateRef"}
IsStatus(c, state) == c.op = "createCommitStatus" /\ c.state = state
IsProcessRead(c) == c.op = "getContent" /\ c.phase = "p_read"
\* The SHA the pass's git.getRef returned.
RereadSha(e) == Calls(e)[CHOOSE i \in DOMAIN Calls(e) : Calls(e)[i].op = "getRef"].sha
ConfigReads(e, ph) ==
    SelectSeq(Calls(e), LAMBDA c : c.op = "getConfig" /\ c.phase = ph)

\* The leaves of a document of nesting depth at most two, by dotted path.
LeafPaths(doc) ==
    {<<k, doc[k]>> : k \in {x \in DOMAIN doc : ~(IsObj(doc[x]) /\ DOMAIN doc[x].o # {})}}
    \cup UNION {{<<k \o "." \o j, doc[k].o[j]>> : j \in DOMAIN doc[k].o} :
                   k \in {x \in DOMAIN doc : IsObj(doc[x])}}
PathKeys(doc) == {p[1] : p \in LeafPaths(doc)}
ChangedKeys(b, h) ==
    {k \in PathKeys(b) \cup PathKeys(h) :
        \/ k \notin PathKeys(b)
        \/ k \notin PathKeys(h)
        \/ \E p \in LeafPaths(b), q \in LeafPaths(h) : p[1] = k /\ q[1] = k /\ p[2] # q[2]}

\* ---- C1
\* The pass read the source file at head and at base, both reads succeeded,
\* and the diff of the two documents has no added, updated or deleted key.
EmptyDiffPass(e) ==
    LET p == pass[e] IN
    /\ \E i \in DOMAIN p.calls : IsProcessRead(p.calls[i])
    /\ \A i \in DOMAIN p.calls :
         IsProcessRead(p.calls[i]) => ~p.calls[i].fault /\ p.calls[i].found
    /\ LET chg == detectStringChanges(commits[p.baseSha].tree[p.config.sourceFile].json,
                                      commits[p.headSha].tree[p.config.sourceFile].json)
       IN DOMAIN chg.added = {} /\ DOMAIN chg.updated = {} /\ DOMAIN chg.deleted = {}

\* C1: when both source reads succeed and the diff is empty, the pass makes no
\* translation call and no git write, and processPullRequest returns
\* success = true with changesProcessed = 0.
C1_EmptyDiffShortCircuits ==
    \A e \in Events :
        EmptyDiffPass(e) =>
            /\ \A i \in DOMAIN Calls(e) :
                 Calls(e)[i].op # "translate" /\ Calls(e)[i].op \notin GitWriteOps
            /\ HasResult(pass[e].result)
            /\ pass[e].result.success
            /\ pass[e].result.changesProcessed = 0

C1_Witness ==
    \E e \in Events : EmptyDiffPass(e) /\ pass[e].pc = "done" /\ pass[e].outcome = "success"

\* ---- C2
\* C2: the commit a pass creates has exactly one parent, the SHA its re-read
\* of the branch ref returned, and its tree is based on that commit's tree
\* (the source file is the one of the re-read head), also when the branch
\* advanced after the event's head SHA was captured.
C2_ParentIsRereadHead ==
    \A e \in Events :
        pass[e].commitSha # 0 =>
            LET new == commits[pass[e].commitSha]
                base == commits[RereadSha(e)].tree
            IN /\ new.parents = <<RereadSha(e)>>
               /\ DEFAULT_SOURCE_FILE \in DOMAIN base =>
                    /\ DEFAULT_SOURCE_FILE \in DOMAIN new.tree
                    /\ new.tree[DEFAULT_SOURCE_FILE] = base[DEFAULT_SOURCE_FILE]

C2_Witness ==
    \E e \in Events :
        /\ pass[e].commitSha # 0
        /\ RereadSha(e) # pass[e].headSha
        /\ commits[pass[e].commitSha].parents # <<pass[e].headSha>>

\* ---- C3
\* C3: a ref update whose remote call does not fail takes effect even if the
\* branch moved after the pass's re-read: the branch then points at the pass's
\* commit, and the commit that landed in between is not reachable from it.
C3_ForcedUpdateWins ==
    [][\A e \in Events :
          (/\ pass[e].pc = "c_updateRef"
           /\ pass'[e].pc # "c_updateRef"
           /\ ~pass'[e].calls[Len(pass'[e].calls)].fault
           /\ refs[Feature] # pass[e].latestSha)
          => /\ refs'[Feature] = pass[e].commitSha
             /\ ~Reachable(commits, pass[e].commitSha, refs[Feature])]_vars

\* A pass's forced update has superseded the commit of a concurrent pass.
C3_Witness ==
    \E e \in Events, d \in Events :
        /\ e # d
        /\ pass[d].commitSha # 0
        /\ \E i \in DOMAIN Calls(e) :
             /\ Calls(e)[i].op = "updateRef"
             /\ Calls(e)[i].ok
             /\ Calls(e)[i].before = pass[d].commitSha
             /\ Calls(e)[i].before # pass[e].latestSha

\* ---- C4
TerminalStatuses(e) ==
    {i \in DOMAIN Calls(e) :
        IsStatus(Calls(e)[i], "success") \/ IsStatus(Calls(e)[i], "failure")}

\* C4: a pass that ended with a result of processPullRequest has made exactly
\* one terminal status call, success for success = true and failure otherwise.
C4_OneMatchingTerminalStatus ==
    \A e \in Events :
        (pass[e].pc = "done" /\ HasResult(pass[e].result)) =>
            /\ Cardinality(TerminalStatuses(e)) = 1
            /\ \A i \in TerminalStatuses(e) :
                 Calls(e)[i].state =
                    IF pass[e].result.success THEN "success" ELSE "failure"

\* ---- C5
PendingBefore(e, i) ==
    \E j \in 1 .. (i - 1) :
        /\ IsStatus(Calls(e)[j], "pending")
        /\ ~Calls(e)[j].fault
        /\ Calls(e)[j].sha = pass[e].headSha

\* C5 as claimed: in a pass that emitted its pending status, every source-file
\* read, translation call and git write comes after the pending status.
C5_PendingBeforeAnyWork ==
    \A e \in Events :
        (\E j \in DOMAIN Calls(e) : IsStatus(Calls(e)[j], "pending")) =>
            \A i \in DOMAIN Calls(e) :
                (\/ Calls(e)[i].op = "getContent"
                 \/ Calls(e)[i].op = "translate"
                 \/ Calls(e)[i].op \in GitWriteOps)
                => PendingBefore(e, i)

\* C5 amended: every source-file read of processPullRequest, every translation
\* call and every git write comes after a pending status for the head SHA
\* (the reads of the shouldProcessWebhook pre-filter come before it).
C5_PendingBeforeProcessing ==
    \A e \in Events :
        \A i \in DOMAIN Calls(e) :
            (\/ IsProcessRead(Calls(e)[i])
             \/ Calls(e)[i].op = "translate"
             \/ Calls(e)[i].op \in GitWriteOps)
            => PendingBefore(e, i)

C5_Witness ==
    \E e \in Events :
        /\ \E i \in DOMAIN Calls(e) :
             Calls(e)[i].op = "getContent" /\ Calls(e)[i].phase = "f_compare"
        /\ \E i \in DOMAIN Calls(e) : IsProcessRead(Calls(e)[i])
        /\ \E i \in DOMAIN Calls(e) : Calls(e)[i].op = "updateRef"

\* ---- C6
\* C6: a pass whose pending status call failed still reads the source file
\* at head and base (and goes on as if the call had succeeded).
C6_StatusFailureDoesNotAbort ==
    \A e \in Events :
        (/\ pass[e].pc = "done"
         /\ \E i \in DOMAIN Calls(e) :
              IsStatus(Calls(e)[i], "pending") /\ Calls(e)[i].fault)
        => \E i \in DOMAIN Calls(e) : IsProcessRead(Calls(e)[i])

\* ---- C7
\* C7: every key of a locale file at the re-read branch head is still in that
\* file in the commit the pass creates.
C7_CommittedLocaleKeysKept ==
    \A e \in Events :
        pass[e].commitSha # 0 =>
            LET old == commits[RereadSha(e)].tree
                new == commits[pass[e].commitSha].tree
            IN \A i \in DOMAIN pass[e].treeItems :
                 LET path == pass[e].treeItems[i].path IN
                 (path \in DOMAIN old /\ old[path].parses) =>
                    DOMAIN old[path].json \subseteq DOMAIN new[path].json

\* ---- C8
WrittenPaths(e) ==
    {filePath(pass[e].config.outputDir, l) : l \in DOMAIN pass[e].translations}

\* C8: the commit of a pass differs from the tree of the re-read branch head
\* only at the paths {outputDir}/{locale}.json of the translated locales.
C8_OnlyLocalePathsChange ==
    \A e \in Events :
        pass[e].commitSha # 0 =>
            LET old == commits[RereadSha(e)].tree
                new == commits[pass[e].commitSha].tree
            IN /\ \A path \in DOMAIN old \ WrittenPaths(e) :
                    path \in DOMAIN new /\ new[path] = old[path]
               /\ DOMAIN new \subseteq DOMAIN old \cup WrittenPaths(e)

C8_Witness ==
    \E e \in Events :
        /\ pass[e].commitSha # 0
        /\ RereadSha(e) # pass[e].headSha
        /\ {ReadmePath, DEFAULT_SOURCE_FILE, DEFAULT_CONFIG_FILE}
              \subseteq DOMAIN commits[pass[e].commitSha].tree \ WrittenPaths(e)

\* ---- C9
NoConfigAnywhere(e) ==
    /\ Len(ConfigReads(e, "h_config")) = 3
    /\ \A i \in 1 .. 3 : ~HasConfig(ConfigReads(e, "h_config")[i].got)

\* C9: when handlePullRequestEvent finds no configuration at any of the three
\* revisions the pass is Skipped: no commit status call and no git write.
C9_NoConfigSkips ==
    \A e \in Events :
        NoConfigAnywhere(e) =>
            /\ pass[e].pc = "done"
            /\ pass[e].outcome = "skipped"
            /\ pass[e].commitSha = 0
            /\ \A i \in DOMAIN Calls(e) :
                 Calls(e)[i].op # "createCommitStatus" /\ Calls(e)[i].op \notin GitWriteOps

C9_Witness == \E e \in Events : NoConfigAnywhere(e) /\ pass[e].pc = "done"

\* ---- C10
FallbackOrder(e) == <<[sha |-> pass[e].headSha], [branch |-> Dev], [branch |-> Main]>>

\* C10: the resolver reads head SHA, base branch, default branch in this
\* order, stops at the first revision that yields a configuration, and
\* returns that configuration (none when all three yield none).
C10_FallbackOrder ==
    \A e \in Events : \A ph \in {"f_config", "h_config"} :
        LET r == ConfigReads(e, ph) IN
        /\ Len(r) <= 3
        /\ \A i \in 1 .. Len(r) : r[i].ref = FallbackOrder(e)[i]
        /\ \A i \in 1 .. (Len(r) - 1) : ~HasConfig(r[i].got)
        /\ (/\ ph = "h_config"
            /\ pass[e].pc \notin {"idle", "f_config", "f_compare", "h_config"}
            /\ pass[e].outcome # "filtered") =>
              /\ Len(r) >= 1
              /\ HasConfig(r[Len(r)].got) \/ Len(r) = 3
              /\ pass[e].config = r[Len(r)].got

\* The head SHA and the base branch yield nothing, the default branch does.
C10_Witness ==
    \E e \in Events :
        LET r == ConfigReads(e, "h_config") IN
        /\ Len(r) = 3
        /\ HasConfig(r[3].got)
        /\ pass[e].config = r[3].got

\* ---- C11
GitOps == GitWriteOps \cup {"getRef", "getTree"}
HasCall(e, op) == \E i \in DOMAIN Calls(e) : Calls(e)[i].op = op
\* The handler (not the pre-filter) has run its resolver to the end.
HandlerResolved(e) ==
    /\ Len(ConfigReads(e, "h_config")) >= 1
    /\ pass[e].pc \notin {"idle", "f_config", "f_compare", "h_config"}
\* The branch matches one of the configured patterns ('*' is any text).
MatchesPattern(branch, config) ==
    \E i \in 1 .. Len(config.targetBranches) : GlobMatch(config.targetBranches[i], branch)
PushOrder(e) == <<[branch |-> pass[e].branch], [branch |-> Main]>>

\* C11: for a push event the resolver reads the pushed branch, then (only if
\* that yields nothing) the default branch; handlePushEvent lists the open
\* pull requests iff a configuration was found and the pushed branch matches
\* one of its patterns, and reprocesses the pull request the host lists.
C11_PushFallbackAndReprocess ==
    \A e \in Events :
        pass[e].kind = "push" =>
            /\ \A ph \in {"f_config", "h_config"} :
                 LET r == ConfigReads(e, ph) IN
                 /\ Len(r) <= 2
                 /\ \A i \in 1 .. Len(r) : r[i].ref = PushOrder(e)[i]
                 /\ \A i \in 1 .. (Len(r) - 1) : ~HasConfig(r[i].got)
            /\ HandlerResolved(e) =>
                 LET r == ConfigReads(e, "h_config")
                     config == r[Len(r)].got
                 IN /\ HasConfig(config) \/ Len(r) = 2
                    /\ (HasCall(e, "pulls.list") \/ pass[e].pc = "u_list")
                         <=> (HasConfig(config) /\ MatchesPattern(pass[e].branch, config))
                    /\ (pass[e].pc = "p_read" \/ \E i \in DOMAIN Calls(e) : IsProcessRead(Calls(e)[i]))
                         <=> (\E i \in DOMAIN Calls(e) :
                                /\ Calls(e)[i].op = "pulls.list"
                                /\ ~Calls(e)[i].fault
                                /\ Calls(e)[i].base = Dev)

\* A push to the base branch: nothing on that branch, the configuration of the
\* default branch monitors it, and the open pull request is reprocessed up to
\* a commit on its head branch.
C11_Witness ==
    \E e \in Events :
        /\ pass[e].kind = "push"
        /\ pass[e].branch = Dev
        /\ Len(ConfigReads(e, "h_config")) = 2
        /\ HasConfig(ConfigReads(e, "h_config")[2].got)
        /\ HasCall(e, "pulls.list")
        /\ pass[e].outcome = "reprocessed"
        /\ pass[e].commitSha # 0

\* ---- C12
ConfigFileUnusable(tree) ==
    \/ DEFAULT_CONFIG_FILE \notin DOMAIN tree
    \/ ~tree[DEFAULT_CONFIG_FILE].parses
\* The tree a configuration read looked at: the branches the resolver names
\* (base and default branch) do not move.
TreeOf(rev) == commits[IF "sha" \in DOMAIN rev THEN rev.sha ELSE InitialRefs[rev.branch]].tree
PositionIn(order, rev) == CHOOSE j \in 1 .. Len(order) : order[j] = rev

\* C12: a configuration read that fails, finds no file or finds a malformed
\* file returns "none" without throwing, and the resolver goes on: to the
\* next revision of the fallback order, or, after the last one, to its caller
\* with no configuration.
C12_GetConfigNeverThrows ==
    \A e \in Events : \A i \in DOMAIN Calls(e) :
        LET c == Calls(e)[i] IN
        (/\ c.op = "getConfig"
         /\ c.fault \/ ConfigFileUnusable(TreeOf(c.ref)))
        => LET j == PositionIn(FallbackOrder(e), c.ref) IN
           /\ c.got = NoConfig
           /\ j < 3 =>
                IF i < Len(Calls(e))
                THEN /\ Calls(e)[i + 1].op = "getConfig"
                     /\ Calls(e)[i + 1].phase = c.phase
                     /\ Calls(e)[i + 1].ref = FallbackOrder(e)[j + 1]
                ELSE pass[e].pc = c.phase /\ pass[e].cfgTry = j + 1
           /\ (j = 3 /\ c.phase = "h_config") =>
                /\ i = Len(Calls(e))
                /\ pass[e].pc = "done"
                /\ pass[e].outcome = "skipped"
           /\ (j = 3 /\ c.phase = "f_config") =>
                IF i < Len(Calls(e))
                THEN Calls(e)[i + 1].op = "getConfig" /\ Calls(e)[i + 1].phase = "h_config"
                ELSE pass[e].pc = "h_config"

\* The file at the head SHA is malformed, one read of the base branch fails,
\* and the resolver still ends with the configuration of the default branch.
C12_Witness ==
    \E e \in Events :
        LET r == ConfigReads(e, "h_config") IN
        /\ Len(r) = 3
        /\ ~r[1].fault
        /\ DEFAULT_CONFIG_FILE \in DOMAIN TreeOf(r[1].ref)
        /\ ~TreeOf(r[1].ref)[DEFAULT_CONFIG_FILE].parses
        /\ r[2].fault
        /\ HasConfig(r[3].got)
        /\ pass[e].config = r[3].got

\* ---- C13
EventBranch(e) == IF pass[e].kind = "push" THEN pass[e].branch ELSE Dev
Unmonitored(e) ==
    /\ HandlerResolved(e)
    /\ HasConfig(pass[e].config)
    /\ ~MatchesPattern(EventBranch(e), pass[e].config)

NoCallFailed(e) ==
    \A i \in DOMAIN Calls(e) : "fault" \in DOMAIN Calls(e)[i] => ~Calls(e)[i].fault
MissingMessage(e, path) ==
    IF path \notin DOMAIN commits[pass[e].headSha].tree
    THEN "Localization failed: No source localization file found in PR branch"
    ELSE "Localization failed: No source localization file found in base branch"

\* C14, in runs where no remote call of the pass fails: a pull-request pass on
\* a monitored branch whose source file is missing at the head SHA or at the
\* base SHA has made a failure status call with the message for the missing
\* side, and no translation call and no git write.
C14_MissingSourceFails ==
    \A e \in Events :
        (/\ pass[e].kind = "pr"
         /\ pass[e].pc = "done"
         /\ NoCallFailed(e)
         /\ Len(ConfigReads(e, "f_config")) >= 1)
        => LET r == ConfigReads(e, "f_config")
               config == r[Len(r)].got
           IN (/\ HasConfig(config)
               /\ MatchesPattern(Dev, config)
               /\ \/ config.sourceFile \notin DOMAIN commits[pass[e].headSha].tree
                  \/ config.sourceFile \notin DOMAIN commits[pass[e].baseSha].tree)
              => /\ \E i \in DOMAIN Calls(e) :
                      /\ IsStatus(Calls(e)[i], "failure")
                      /\ Calls(e)[i].description = MissingMessage(e, config.sourceFile)
                 /\ \A i \in DOMAIN Calls(e) :
                      Calls(e)[i].op # "translate" /\ Calls(e)[i].op \notin GitWriteOps

\* ---- C15
AllStatusesAreFailures(e) ==
    /\ \A i \in DOMAIN Calls(e) : ~IsStatus(Calls(e)[i], "success")
    /\ pass[e].pc = "done" => \E i \in DOMAIN Calls(e) : IsStatus(Calls(e)[i], "failure")
\* The translation step was run with a locale that is no string and with at
\* least one key to translate.
TranslationFailed(e) ==
    /\ HasCall(e, "translate")
    /\ \E i \in 1 .. Len(pass[e].config.targetLocales) :
         pass[e].config.targetLocales[i] = NumberLocale
    /\ DOMAIN pass[e].changes.added \cup DOMAIN pass[e].changes.updated # {}

\* C15: when the translation step fails, processPullRequest returns
\* success = false, the pass makes a failure status call and no success
\* status call, and it makes no git call: no blob, tree, commit or ref update.
C15_TranslationFailureFails ==
    \A e \in Events :
        TranslationFailed(e) =>
            /\ HasResult(pass[e].result)
            /\ ~pass[e].result.success
            /\ pass[e].result.error = "Translation API call failed"
            /\ pass[e].commitSha = 0
            /\ \A i \in DOMAIN Calls(e) : Calls(e)[i].op \notin GitOps
            /\ AllStatusesAreFailures(e)

C15_Witness ==
    \E e \in Events :
        /\ TranslationFailed(e)
        /\ pass[e].pc = "done"
        /\ pass[e].outcome = "failure"

\* ---- C16
CommitCallFailed(e) ==
    \E i \in DOMAIN Calls(e) : Calls(e)[i].op \in GitOps /\ Calls(e)[i].fault

\* C16: when a remote call of commitTranslationsToPR fails, no further git
\* call is made, processPullRequest returns success = false with the error and
\* changesProcessed = 0, the pass makes a failure status call and no success
\* status call, and the pass has not moved the branch ref.
C16_CommitFailureFails ==
    \A e \in Events :
        CommitCallFailed(e) =>
            /\ HasResult(pass[e].result)
            /\ ~pass[e].result.success
            /\ pass[e].result.error = "commit error"
            /\ pass[e].result.changesProcessed = 0
            /\ \A i \in DOMAIN Calls(e) :
                 (Calls(e)[i].op \in GitOps /\ Calls(e)[i].fault) =>
                    \A j \in (i + 1) .. Len(Calls(e)) : Calls(e)[j].op \notin GitOps
            /\ \A i \in DOMAIN Calls(e) : Calls(e)[i].op = "updateRef" => ~Calls(e)[i].ok
            /\ pass[e].commitSha # 0 => refs[Feature] # pass[e].commitSha
            /\ pass[e].kind = "pr" => AllStatusesAreFailures(e)

\* The commit was created and the ref update failed.
C16_Witness ==
    \E e \in Events :
        /\ pass[e].commitSha # 0
        /\ \E i \in DOMAIN Calls(e) : Calls(e)[i].op = "updateRef" /\ Calls(e)[i].fault
        /\ pass[e].pc = "done"
        /\ pass[e].outcome = "failure"

\* ---- C17
UpperCaseOf(locale) ==
    CASE locale = "fr" -> "FR" [] locale = "it" -> "IT" [] locale = "de" -> "DE"
      [] locale = "en" -> "EN" [] OTHER -> locale
LeafAt(doc, k) == (CHOOSE p \in LeafPaths(doc) : p[1] = k)[2]
\* What a locale file holds after a pass from base document b to head
\* document h: the added and updated keys, each "[LOCALE] value".
ExpectedFile(locale, b, h) ==
    [type |-> "file", parses |-> TRUE,
     json |-> [k \in {x \in PathKeys(h) : x \in ChangedKeys(b, h)} |->
                  Str("[" \o UpperCaseOf(locale) \o "] " \o LeafAt(h, k).s)]]
BlobPaths(e) ==
    LET blobs == SelectSeq(Calls(e), LAMBDA c : c.op = "createBlob") IN
    [i \in DOMAIN blobs |-> blobs[i].path]
\* The pass went through to the ref update and none of its calls failed.
AllCallsSucceeded(e) ==
    /\ pass[e].kind = "pr"
    /\ pass[e].pc = "done"
    /\ NoCallFailed(e)
    /\ HasCall(e, "updateRef")

\* C17: a pass with a non-empty ChangeSet in which every call succeeds returns
\* success = true with changesProcessed = |added| + |updated| + |deleted| and
\* localesUpdated = the number of (distinct) target locales, writes one file
\* per target locale at {outputDir}/{locale}.json holding the translated
\* entries, and ends with a success status.
C17_SuccessfulPass ==
    \A e \in Events :
        AllCallsSucceeded(e) =>
            LET p == pass[e]
                b == commits[p.baseSha].tree[p.config.sourceFile].json
                h == commits[p.headSha].tree[p.config.sourceFile].json
                locales == {p.config.targetLocales[i] : i \in 1 .. Len(p.config.targetLocales)}
                tree == commits[p.commitSha].tree
            IN /\ p.result.success
               /\ ChangedKeys(b, h) # {}
               /\ p.result.changesProcessed = Cardinality(ChangedKeys(b, h))
               /\ p.result.localesUpdated = Cardinality(locales)
               /\ Len(BlobPaths(e)) = Cardinality(locales)
               /\ {BlobPaths(e)[i] : i \in DOMAIN BlobPaths(e)}
                     = {p.config.outputDir \o "/" \o l \o ".json" : l \in locales}
               /\ \A l \in locales :
                    LET path == p.config.outputDir \o "/" \o l \o ".json" IN
                    /\ path \in DOMAIN tree
                    /\ tree[path] = ExpectedFile(l, b, h)
               /\ IsStatus(Calls(e)[Len(Calls(e))], "success")
               /\ Calls(e)[Len(Calls(e))].sha = p.headSha
               /\ ~Calls(e)[Len(Calls(e))].fault
               /\ p.outcome = "success"

\* Two locales (one named twice), an added and a deleted key.
C17_Witness ==
    \E e \in Events :
        /\ AllCallsSucceeded(e)
        /\ Len(pass[e].config.targetLocales) = 3
        /\ pass[e].result.localesUpdated = 2
        /\ pass[e].result.changesProcessed = 2
        /\ DOMAIN pass[e].changes.added # {}
        /\ DOMAIN pass[e].changes.deleted # {}

\* ---- C18
IsFlat(doc) == \A k \in DOMAIN doc : ~IsNested(doc[k])

\* C18: for documents that are already flat, a key is in added iff it is
\* absent from base and present in head, in deleted iff present in base and
\* absent from head, in updated iff present in both with unequal values, and
\* in none of the three iff present in both with equal values.
C18_KeyClassification ==
    (diff.phase = "done" /\ IsFlat(diff.base) /\ IsFlat(diff.head)) =>
        LET b == diff.base
            h == diff.head
            c == diff.changes
        IN \A k \in DOMAIN b \cup DOMAIN h \cup DOMAIN c.added
                    \cup DOMAIN c.deleted \cup DOMAIN c.updated :
            /\ k \in DOMAIN c.added <=> (k \notin DOMAIN b /\ k \in DOMAIN h)
            /\ k \in DOMAIN c.deleted <=> (k \in DOMAIN b /\ k \notin DOMAIN h)
            /\ k \in DOMAIN c.updated <=> (k \in DOMAIN b /\ k \in DOMAIN h /\ b[k] # h[k])
            /\ (k \notin DOMAIN c.added /\ k \notin DOMAIN c.deleted /\ k \notin DOMAIN c.updated)
                 <=> (k \in DOMAIN b /\ k \in DOMAIN h /\ b[k] = h[k])

\* One diff with an added, an updated and a deleted key.
C18_Witness ==
    /\ diff.phase = "done"
    /\ IsFlat(diff.base) /\ IsFlat(diff.head)
    /\ DOMAIN diff.changes.updated # {}
    /\ DOMAIN diff.changes.added # {}
    /\ DOMAIN diff.changes.deleted # {}

\* ---- C19
\* C19: the key sets of added, updated and deleted are pairwise disjoint and
\* their union is the set of keys that are in one document only or have
\* different values in the two documents.
C19_DisjointAndComplete ==
    diff.phase = "done" =>
        LET c == diff.changes IN
        /\ DOMAIN c.added \cap DOMAIN c.updated = {}
        /\ DOMAIN c.added \cap DOMAIN c.deleted = {}
        /\ DOMAIN c.updated \cap DOMAIN c.deleted = {}
        /\ DOMAIN c.added \cup DOMAIN c.updated \cup DOMAIN c.deleted
             = ChangedKeys(diff.base, diff.head)

\* A nested key whose value differs, beside an unchanged key.
C19_Witness ==
    /\ diff.phase = "done"
    /\ diff.base = DocNested1
    /\ diff.head = DocNested
    /\ DOMAIN diff.changes.updated = {"n.x"}

\* ---- C20
\* C20: detectStringChanges(A, A) has empty added, updated and deleted maps.
C20_SelfDiffEmpty ==
    (diff.phase = "done" /\ diff.base = diff.head) =>
        /\ DOMAIN diff.changes.added = {}
        /\ DOMAIN diff.changes.updated = {}
        /\ DOMAIN diff.changes.deleted = {}

C20_Witness ==
    /\ diff.phase = "done"
    /\ diff.base = diff.head
    /\ diff.base = DocEmptyLeaf
    /\ diff.changes = NoChanges

\* ---- C21
\* C21: the stub's result has one entry per locale of the list; its keys are
\* the keys of added and updated, none of them a deleted key, and the value
\* of key k is "[" + the locale in upper case + "] " + the head value of k.
C21_StubTranslation ==
    pure.phase = "done" /\ "translations" \in DOMAIN pure =>
        LET t == pure.translations
            L == {pure.targetLocales[i] : i \in 1 .. Len(pure.targetLocales)}
        IN /\ DOMAIN t = L
           /\ \A l \in L :
                /\ DOMAIN t[l] = DOMAIN pure.changes.added \cup DOMAIN pure.changes.updated
                /\ DOMAIN t[l] \cap DOMAIN pure.changes.deleted = {}
                /\ \A k \in DOMAIN t[l] :
                     /\ k \in DOMAIN pure.head
                     /\ t[l][k] = "[" \o UpperCaseOf(l) \o "] " \o pure.head[k].s

\* Two locales, an updated key and an added key.
C21_Witness ==
    /\ pure.phase = "done"
    /\ "translations" \in DOMAIN pure
    /\ pure.targetLocales = <<"de", "fr">>
    /\ DOMAIN pure.changes.updated # {}
    /\ DOMAIN pure.changes.added # {}
    /\ pure.translations["de"]["b"] = "[DE] 2"

\* ---- C22
RECURSIVE Glob(_, _)
\* The glob of the specification: '*' is any text, every other character
\* matches itself only.
Glob(pattern, name) ==
    IF pattern = << >> THEN name = << >>
    ELSE IF Head(pattern) = "*"
         THEN \E i \in 0 .. Len(name) : Glob(Tail(pattern), SubSeq(name, i + 1, Len(name)))
         ELSE name # << >> /\ Head(name) = Head(pattern) /\ Glob(Tail(pattern), Tail(name))
HasStar(pattern) == \E j \in 1 .. Len(pattern) : pattern[j] = "*"

\* C22: isTargetBranch is true iff some pattern equals the branch name, or
\* holds a '*' and matches the whole name as a glob in which every character
\* other than '*' matches only itself.
C22_GlobSemantics ==
    pure.phase = "done" /\ "monitored" \in DOMAIN pure =>
        (pure.monitored <=>
            \E i \in 1 .. Len(pure.targetBranches) :
                LET pattern == pure.targetBranches[i] IN
                \/ pattern = pure.branchName
                \/ HasStar(pattern) /\ Glob(pattern, pure.branchName))

\* ---- C23
\* C23: every configuration the resolver returns has at least one target
\* locale, and a pass that commits writes at least one locale file.
C23_TargetLocalesNonEmpty ==
    \A e \in Events :
        /\ HasConfig(pass[e].config) => Len(pass[e].config.targetLocales) >= 1
        /\ pass[e].commitSha # 0 => Len(BlobPaths(e)) >= 1

\* ---- C24
\* C24: validateConfig returns all six fields; an array field is the
\* document's value when that is an array and the default otherwise, a string
\* field is the document's value when that is a string and the default
\* otherwise.
C24_ValidateConfigTotal ==
    pure.phase = "done" /\ "validated" \in DOMAIN pure =>
        LET doc == pure.doc
            v == pure.validated
        IN /\ DOMAIN v = DOMAIN DEFAULT_CONFIG
           /\ \A f \in {"targetBranches", "targetLocales"} :
                v[f] = IF f \in DOMAIN doc /\ "arr" \in DOMAIN doc[f]
                       THEN doc[f].arr ELSE DEFAULT_CONFIG[f]
           /\ \A f \in {"sourceFile", "sourceLocale", "outputDir", "projectApiKey"} :
                v[f] = IF f \in DOMAIN doc /\ "s" \in DOMAIN doc[f]
                       THEN doc[f].s ELSE DEFAULT_CONFIG[f]

\* A string where an array is asked for and an array where a string is asked
\* for, beside a field of the right type.
C24_Witness ==
    /\ pure.phase = "done"
    /\ "validated" \in DOMAIN pure
    /\ DOMAIN pure.doc = {"targetBranches", "sourceFile", "outputDir"}
    /\ pure.doc.targetBranches = Str("x")
    /\ pure.doc.sourceFile = Arr(<<Dev>>)
    /\ pure.doc.outputDir = Str("x")
    /\ pure.validated.targetBranches = <<Main>>
    /\ pure.validated.sourceFile = DEFAULT_SOURCE_FILE
    /\ pure.validated.outputDir = "x"

\* ---- C25
ProcessReads(e) == SelectSeq(Calls(e), IsProcessRead)
\* The push handler of event e got the list of open pull requests.
Listed(e) ==
    /\ pass[e].kind = "push"
    /\ \E i \in DOMAIN Calls(e) : Calls(e)[i].op = "pulls.list" /\ ~Calls(e)[i].fault

\* C25: after a push to a monitored branch the handler has the open pull
\* requests onto that branch (here two, with different head commits), it ends
\* only when it has a result for each of them, whatever the earlier results
\* were, and the i-th pass reads the source file at the head SHA and at the
\* base SHA of the i-th pull request.
C25_EveryOpenPullRequestReprocessed ==
    \A e \in Events :
        Listed(e) =>
            LET p == pass[e] IN
            /\ isTargetBranch(p.branch, p.config)
            /\ [i \in DOMAIN p.openPRs |-> p.openPRs[i].headRef] = <<Feature, Feature2>>
            /\ \A i \in DOMAIN p.openPRs :
                 /\ p.openPRs[i].headSha \in DOMAIN commits
                 /\ p.openPRs[i].baseSha = refs[p.branch]
            /\ p.openPRs[1].headSha # p.openPRs[2].headSha
            /\ Len(p.results) <= Len(p.openPRs)
            /\ p.pc = "done" => Len(p.results) = Len(p.openPRs)
            /\ Len(ProcessReads(e)) \in {2 * Len(p.results), 2 * Len(p.results) + 2}
            /\ \A i \in DOMAIN p.openPRs :
                 2 * i <= Len(ProcessReads(e)) =>
                     /\ ProcessReads(e)[2 * i - 1].ref = ShaRev(p.openPRs[i].headSha)
                     /\ ProcessReads(e)[2 * i].ref = ShaRev(p.openPRs[i].baseSha)

\* The pass of the first pull request failed, the pass of the second one
\* committed its translations.
C25_Witness ==
    \E e \in Events :
        /\ Listed(e)
        /\ pass[e].pc = "done"
        /\ Len(pass[e].results) = 2
        /\ ~pass[e].results[1].success
        /\ pass[e].results[2].success
        /\ pass[e].results[2].changesProcessed > 0
        /\ refs[Feature2] = pass[e].commitSha

\* ---- C26
\* C26: when the push handler has ended, it has set, for every pull request
\* it reprocessed, a commit status on the pull request's head SHA: success
\* when the pass returned success, failure when it returned a failure.
C26_ReprocessedStatus ==
    \A e \in Events :
        Listed(e) /\ pass[e].pc = "done" =>
            \A i \in DOMAIN pass[e].results :
                \E j \in DOMAIN Calls(e) :
                    /\ Calls(e)[j].op = "createCommitStatus"
                    /\ Calls(e)[j].sha = pass[e].openPRs[i].headSha
                    /\ Calls(e)[j].state = IF pass[e].results[i].success
                                           THEN STATUS_STATES.SUCCESS
                                           ELSE STATUS_STATES.FAILURE

\* ---- C27
\* The steps of the handler of event e.
HandlerStep(e) ==
    \/ GetConfig(e) \/ FilterCompare(e) \/ ListOpenPRs(e) \/ SetPending(e)
    \/ ReadSources(e) \/ Translate(e) \/ GetRef(e) \/ GetTree(e) \/ CreateBlob(e)
    \/ CreateTree(e) \/ CreateCommit(e) \/ UpdateRef(e) \/ TerminalStatus(e)
    \/ SetErrorStatus(e)
ErrorStatuses(e) ==
    {i \in DOMAIN Calls(e) : Calls(e)[i].op = "createCommitStatus" /\ Calls(e)[i].at = "h_error"}

\* C27: no handler ends by throwing; a handler that has not ended always has
\* a next step; the catch block of handlePullRequestEvent makes one failure
\* status call, which is the handler's last call whether it fails or not; and
\* the catch block of handlePushEvent makes no call at all.
C27_HandlersNeverThrow ==
    \A e \in Events :
        /\ pass[e].outcome # "threw"
        /\ pass[e].pc \notin {"idle", "done"} => ENABLED HandlerStep(e)
        /\ Cardinality(ErrorStatuses(e)) <= 1
        /\ pass[e].kind = "push" => ErrorStatuses(e) = {}
        /\ \A i \in ErrorStatuses(e) :
             /\ Calls(e)[i].state = STATUS_STATES.FAILURE
             /\ i = Len(Calls(e))
             /\ pass[e].pc = "done"
             /\ pass[e].outcome = "error"
        /\ pass[e].pc = "done" /\ pass[e].outcome = "error" /\ pass[e].kind = "pr"
             => ErrorStatuses(e) # {}

\* isTargetBranch threw in handlePullRequestEvent and the failure status call
\* of setErrorStatus failed too.
C27_Witness ==
    \E e \in Events :
        /\ pass[e].kind = "pr"
        /\ pass[e].pc = "done"
        /\ HasConfig(pass[e].config)
        /\ isTargetBranchThrows(Dev, pass[e].config)
        /\ \E i \in ErrorStatuses(e) : Calls(e)[i].fault

\* ---- C28
CountOp(e, op) == Len(SelectSeq(Calls(e), LAMBDA c : c.op = op))
DistinctLocales(e) ==
    {pass[e].config.targetLocales[i] : i \in 1 .. Len(pass[e].config.targetLocales)}

\* C28: within one pass the ref read, the tree read, createTree, createCommit
\* and updateRef are each called at most once, createBlob at most once per
\* locale and never twice for the same path, and no git call follows a git
\* call that failed.
C28_GitCallsAtMostOnce ==
    \A e \in Events :
        /\ \A op \in {"getRef", "getTree", "createTree", "createCommit", "updateRef"} :
             CountOp(e, op) <= 1
        /\ HasCall(e, "createBlob") => CountOp(e, "createBlob") <= Cardinality(DistinctLocales(e))
        /\ \A i, j \in DOMAIN BlobPaths(e) : i # j => BlobPaths(e)[i] # BlobPaths(e)[j]
        /\ \A i, j \in DOMAIN Calls(e) :
             i < j /\ Calls(e)[i].op \in GitOps /\ Calls(e)[i].fault
                 => Calls(e)[j].op \notin GitOps

\* The second createBlob of a pass failed and the pass has ended.
C28_Witness ==
    \E e \in Events :
        /\ pass[e].pc = "done"
        /\ CountOp(e, "createBlob") = 2
        /\ \E i \in DOMAIN Calls(e) : Calls(e)[i].op = "createBlob" /\ Calls(e)[i].fault
        /\ ~HasCall(e, "createTree")

\* ---- C29
\* C29: an array value is one leaf under its key: no key of the ChangeSet
\* is an index inside an array, and two different arrays under the same key
\* are one updated key.
C29_ArraysAreOpaque ==
    diff.phase = "done" =>
        LET c == diff.changes
            keys == DOMAIN c.added \cup DOMAIN c.updated \cup DOMAIN c.deleted
        IN /\ keys \subseteq DOMAIN diff.base \cup DOMAIN diff.head
           /\ \A k \in DOMAIN diff.base \cap DOMAIN diff.head :
                diff.base[k] # diff.head[k] => k \in DOMAIN c.updated

\* ---- C30
\* C30: a pass whose configuration has no projectApiKey and that reaches the
\* translation call returns a Failure, makes no git call and no commit, and
\* sets no success status.
C30_MissingApiKeyFails ==
    \A e \in Events :
        HasConfig(pass[e].config) /\ pass[e].config.projectApiKey = "" /\ HasCall(e, "translate")
            => /\ pass[e].commitSha = 0
               /\ \A i \in DOMAIN Calls(e) : Calls(e)[i].op \notin GitOps
               /\ HasResult(pass[e].result) => ~pass[e].result.success
               /\ AllStatusesAreFailures(e)

\* ---- C31
IndicesOf(e, ops) == {i \in DOMAIN Calls(e) : Calls(e)[i].op \in ops}
ProcessReadIndices(e) == {i \in DOMAIN Calls(e) : IsProcessRead(Calls(e)[i])}
TerminalIndices(e) ==
    {i \in DOMAIN Calls(e) : Calls(e)[i].op = "createCommitStatus" /\ Calls(e)[i].at = "h_status"}

\* C31: in a pull-request pass the two source-file reads are made together
\* (head, then base, nothing between them) and the ChangeSet exists only once
\* both are there; the translation call comes after both reads, every git
\* call after a translation call that returned, and the terminal status after
\* every read, translation and git call, when processPullRequest has returned.
C31_StepOrder ==
    \A e \in Events :
        pass[e].kind = "pr" =>
            LET reads == ProcessReadIndices(e)
                trans == IndicesOf(e, {"translate"})
                gits == IndicesOf(e, GitOps)
                terms == TerminalIndices(e)
            IN /\ Cardinality(reads) \in {0, 2}
               /\ \A i \in reads : \A j \in reads :
                    i < j => /\ j = i + 1
                             /\ Calls(e)[i].ref = ShaRev(pass[e].headSha)
                             /\ Calls(e)[j].ref = ShaRev(pass[e].baseSha)
               /\ pass[e].changes # NoChanges => Cardinality(reads) = 2
               /\ \A t \in trans : Cardinality(reads) = 2 /\ \A i \in reads : i < t
               /\ \A g \in gits : \E t \in trans : t < g /\ ~Calls(e)[t].failed
               /\ \A s \in terms :
                    /\ HasResult(pass[e].result)
                    /\ \A i \in reads \cup trans \cup gits : i < s

\* A pass that went through every step: reads, translation, the git calls and
\* the terminal status.
C31_Witness ==
    \E e \in Events :
        /\ pass[e].kind = "pr"
        /\ pass[e].pc = "done"
        /\ HasCall(e, "updateRef")
        /\ TerminalIndices(e) # {}
        /\ IndicesOf(e, {"translate"}) # {}

\* ---- C35
RefMoved(e) == \E i \in DOMAIN Calls(e) : Calls(e)[i].op = "updateRef" /\ Calls(e)[i].ok

\* C35: a pull-request pass whose updateRef call moved the branch ref makes
\* no failure status call, whether the call gets through or not.
C35_NoFailureAfterRefMoved ==
    \A e \in Events :
        pass[e].kind = "pr" /\ RefMoved(e) =>
            \A i \in DOMAIN Calls(e) : ~IsStatus(Calls(e)[i], STATUS_STATES.FAILURE)

\* ---- C36
\* C36: every success or failure status call of a pull-request pass comes
\* after a pending status call of the same pass, for the same SHA, that did
\* not fail.
C36_PendingBeforeTerminal ==
    \A e \in Events :
        pass[e].kind = "pr" =>
            \A i \in DOMAIN Calls(e) :
                IsStatus(Calls(e)[i], STATUS_STATES.SUCCESS)
                \/ IsStatus(Calls(e)[i], STATUS_STATES.FAILURE)
                    => \E j \in 1 .. i - 1 :
                          /\ IsStatus(Calls(e)[j], STATUS_STATES.PENDING)
                          /\ Calls(e)[j].sha = Calls(e)[i].sha
                          /\ ~Calls(e)[j].fault

\* ---- C37
\* C37: every commit status call of a pull-request pass names the head SHA
\* of the triggering event, and none names the commit the pass created.
C37_StatusesOnEventHead ==
    \A e \in Events :
        pass[e].kind = "pr" =>
            \A i \in DOMAIN Calls(e) :
                Calls(e)[i].op = "createCommitStatus" =>
                    /\ Calls(e)[i].sha = pass[e].headSha
                    /\ pass[e].commitSha # 0 => Calls(e)[i].sha # pass[e].commitSha

\* The pass committed, the branch head is the new commit, and the pending and
\* the success status were both set.
C37_Witness ==
    \E e \in Events :
        /\ pass[e].kind = "pr"
        /\ pass[e].pc = "done"
        /\ pass[e].commitSha # 0
        /\ refs[Feature] = pass[e].commitSha
        /\ \E i \in DOMAIN Calls(e) : IsStatus(Calls(e)[i], STATUS_STATES.PENDING)
        /\ \E i \in DOMAIN Calls(e) : IsStatus(Calls(e)[i], STATUS_STATES.SUCCESS)

\* ---- C38
\* C38: the locale files of the commit a pass creates are those computed from
\* the configuration and the source documents at the event's base SHA and
\* head SHA, whatever the branch head was when the pass re-read it.
C38_ContentFromEventShas ==
    \A e \in Events :
        pass[e].kind = "pr" /\ pass[e].commitSha # 0 =>
            LET p == pass[e]
                b == commits[p.baseSha].tree[p.config.sourceFile].json
                h == commits[p.headSha].tree[p.config.sourceFile].json
            IN \A i \in 1 .. Len(p.config.targetLocales) :
                 LET l == p.config.targetLocales[i]
                     path == p.config.outputDir \o "/" \o l \o ".json"
                 IN /\ path \in DOMAIN commits[p.commitSha].tree
                    /\ commits[p.commitSha].tree[path] = ExpectedFile(l, b, h)

\* The branch head the pass re-read holds another source document than the
\* event's head SHA, and the pass committed.
C38_Witness ==
    \E e \in Events :
        /\ pass[e].kind = "pr"
        /\ pass[e].commitSha # 0
        /\ RereadSha(e) # pass[e].headSha
        /\ commits[RereadSha(e)].tree[pass[e].config.sourceFile]
              # commits[pass[e].headSha].tree[pass[e].config.sourceFile]

\* ---- C39
FilterCalls(e) ==
    SelectSeq(Calls(e), LAMBDA c : c.op \in {"getConfig", "getContent"}
                                   /\ c.phase \in {"f_config", "f_compare"})
FilterCompareReads(e) ==
    SelectSeq(Calls(e), LAMBDA c : c.op = "getContent" /\ c.phase = "f_compare")
\* The configuration the pre-filter's resolver returned.
FilterConfig(e) == ConfigReads(e, "f_config")[Len(ConfigReads(e, "f_config"))].got

\* C39: shouldProcessWebhook returns false only when none of its calls
\* failed, its resolver returned a configuration with a sourceFile, and the
\* source file is absent at both revisions or parses at both to documents
\* with an empty ChangeSet.
C39_FilterFailsOpen ==
    \A e \in Events :
        pass[e].outcome = "filtered" =>
            /\ \A i \in DOMAIN FilterCalls(e) : ~FilterCalls(e)[i].fault
            /\ HasConfig(FilterConfig(e))
            /\ FilterConfig(e).sourceFile # ""
            /\ Len(FilterCompareReads(e)) = 2
            /\ LET path == FilterConfig(e).sourceFile
                   previous == getFileContent(commits[FilterCompareReads(e)[1].ref.sha].tree,
                                              path, FALSE)
                   current == getFileContent(commits[FilterCompareReads(e)[2].ref.sha].tree,
                                             path, FALSE)
               IN /\ ~previous.threw /\ ~current.threw
                  /\ previous.found = current.found
                  /\ previous.found => ChangedKeys(previous.json, current.json) = {}

\* ---- C40
\* C40: no file the pass writes into its commit is at the path of the
\* configured source file.
C40_SourceFileNotWritten ==
    \A e \in Events :
        HasConfig(pass[e].config) =>
            \A i \in DOMAIN BlobPaths(e) : BlobPaths(e)[i] # pass[e].config.sourceFile

\* ---- C32
SourceAt(sha, e) == commits[sha].tree[pass[e].config.sourceFile]
\* Pass f was started on the commit of the successful pass e, with the same
\* base and the same source document at its head.
SecondPassOf(e, f) ==
    /\ e # f
    /\ pass[e].kind = "pr" /\ pass[f].kind = "pr"
    /\ pass[e].commitSha # 0
    /\ pass[e].outcome = STATUS_STATES.SUCCESS
    /\ pass[f].headSha = pass[e].commitSha
    /\ pass[f].baseSha = pass[e].baseSha
    /\ SourceAt(pass[f].headSha, e) = SourceAt(pass[e].headSha, e)

\* C32: a second pass for the same pull request, run on the result of a
\* successful first pass with the source documents unchanged, creates no
\* commit, and (nobody else pushing) the branch head stays at the commit of
\* the first pass.
C32_SecondPassCommitsNothing ==
    \A e, f \in Events :
        SecondPassOf(e, f) =>
            /\ pass[f].commitSha = 0
            /\ pushes = 0 => refs[Feature] = pass[e].commitSha

\* ---- C33
\* C33: when the only events are the opening of the pull request and the
\* synchronize events for the app's own commits, the chain of passes comes to
\* a pass that commits nothing: it is never the case that every event of the
\* chain has ended with a commit that moved the branch head once more.
C33_CommitsComeToAnEnd ==
    ~ \A e \in Events :
          /\ pass[e].pc = "done"
          /\ pass[e].commitSha # 0
          /\ \E i \in DOMAIN Calls(e) : Calls(e)[i].op = "updateRef" /\ Calls(e)[i].ok
          /\ e > 1 => pass[e].headSha = pass[e - 1].commitSha

\* ---- C34
\* C34: the refs of the default branch and of the base branch of the
\* repository stay where they were: a pass moves the pull request's head
\* branch only.
C34_BaseBranchNeverMoved ==
    /\ refs[Main] = InitialRefs[Main]
    /\ refs[Dev] = InitialRefs[Dev]

====
